---------------------------- MODULE Spec2Model ----------------------------
(***************************************************************************)
(* A model of the preferences dialog (gui/dialogs/preferences_dialog.cpp)  *)
(* and of the unit preview pane, its setters and its tooltip formatters    *)
(* (gui/widgets/unit_preview_pane.cpp).                                    *)
(*                                                                         *)
(* The two translation units are independent, and so are the panels of    *)
(* the dialog: each part has its own variables, its own initial state and *)
(* its own specification (SpecFilter, SpecDialog, SpecFriends, SpecCombo, *)
(* SpecHp, SpecMp, SpecAdvanced, SpecHotkeys, SpecPane).  A specification *)
(* leaves the variables of the other parts at their idle values;          *)
(* SpecHotkeys shares the variables of the hotkey list with SpecFilter.   *)
(*                                                                         *)
(* Strings are sequences of one-character strings, so that splitting,     *)
(* searching and concatenation are computed and not assumed.              *)
(***************************************************************************)
EXTENDS Integers, Sequences, FiniteSets, TLC

VARIABLES
    \* ---- hotkeys panel (filter) ----
    hotkey_commands,      \* hotkey::get_hotkey_commands(), in registry order
    visible_hotkeys_,     \* indices into hotkey_commands, one per row of list_hotkeys
    visible_categories_,  \* std::set<HOTKEY_CATEGORY>
    toggle_states,        \* hotkey_category_menu: one toggle per visible category
    filter,               \* the text of the "filter" text box
    row_shown,            \* list_hotkeys: whether row h is shown
    hk_last,              \* the last handler that ran on the hotkeys panel
    \* ---- the dialog: pre_show, page selection, post_show ----
    initial_index_,       \* pef_view_map[initial_view]: <<main page, tab>>
    selector_items,       \* number of rows of the "selector" listbox
    selector_row,         \* selected row of "selector"
    pager_layers,         \* the layers of "pager", each with its tab widgets
    pager_layer,          \* selected layer of "pager"
    dlg_pc,               \* constructed, shown, closed or failed
    dlg_last,             \* the last handler of the dialog that ran
    dlg_error,            \* the message of the failed VALIDATE, "" if none
    retval,               \* the return value the window was closed with
    closes,               \* how many times the dialog was closed
    io_log,               \* the calls into the settings storage, in order
    \* ---- multiplayer panel: the friends list ----
    acquaintances,        \* preferences::get_acquaintances(): nick -> entry
    friends_list,         \* the rows of "friends_list": the labels of each
    friends_selected,     \* selected row of "friends_list", -1 if none
    friend_name_box,      \* the text of "friend_name_box"
    remove_active,        \* whether the "remove" button is active
    no_friends_notice,    \* whether "no_friends_notice" is visible
    fr_message,           \* the transient message the last handler showed
    fr_last,              \* the last handler of the friends list that ran
    \* ---- advanced panel: one COMBO option ----
    option_ids,           \* the ids of the option's choices, in declaration order
    option_default,       \* option.cfg["default"]
    saved_value,          \* the saved preference, <<>> when nothing is saved
    menu_value,           \* the selected entry of the "setter" menu_button
    adv_last,             \* the last handler of the option that ran
    \* ---- unit preview pane: the resistance tooltip ----
    res,                  \* the resistance table: its damage types, in table order
    resistance,           \* get(type, attacker): type -> attacker? -> value
    hp_tooltip,           \* the tooltip get_hp_tooltip returned
    hp_last,              \* the last function of the pane that ran
    \* ---- unit preview pane: the movement tooltip ----
    encountered_terrains, \* preferences::encountered_terrains()
    movement_cost,        \* get(terrain): terrain -> movement cost
    total_movement,       \* the maximum movement of the unit or unit type
    tdata,                \* whether help::load_terrain_types_data() gave the data
    mp_tooltip,           \* the tooltip get_mp_tooltip returned
    mp_last,              \* the last function of the pane that ran
    \* ---- advanced panel: the rows of "advanced_prefs" ----
    adv_preferences_,     \* preferences::get_advanced_preferences()
    value_toggle,         \* per row: the visibility of "value_toggle"
    prefs_setter_grid,    \* per row: the visibility of "prefs_setter_grid"
    advanced_selected,    \* advanced.get_selected_row()
    last_selected_item_,  \* the row whose grid was last expanded
    opened_dialog,        \* the dialog the last selection of a SPECIAL row opened
    row_last,             \* the last handler of the list that ran
    \* ---- hotkeys panel: the bindings and the buttons ----
    hotkeys_,             \* hotkey::get_hotkeys(): the bindings, in list order
    lbl_hotkey,           \* per row of list_hotkeys: the label "lbl_hotkey"
    hotkeys_selected,     \* list_hotkeys.get_selected_row(), -1 if none
    active_sorting,       \* the active sorting option of list_hotkeys
    bind_dlg,             \* what the bind dialog of the last handler returned
    reassign,             \* the answer to "Reassign Hotkey" in the last handler
    add_hotkey_called,    \* whether the last handler called hotkey::add_hotkey
    hotkey_item,          \* the command the last handler read from visible_hotkeys_
    hk_message,           \* the transient message the last handler showed
    bnd_last,             \* the last handler of the buttons that ran
    \* ---- unit preview pane: the widgets and what they show ----
    image_mods_,          \* the image modifications the pane was given
    controller,           \* resources::controller: the colour of the current side, "" without a game
    current_type_,        \* the id of the unit type of the last call
    icon_type_,           \* "type_image": whether it exists, and its label
    label_name_,          \* "type_name"
    label_level_,         \* "type_level": its label and its tooltip
    label_race_,          \* "type_race_label"
    icon_race_,           \* "type_race"
    icon_alignment_,      \* "type_alignment": its label and its tooltip
    label_details_,       \* "type_details_minimal"
    tree_details_,        \* "type_details": whether it exists, and its nodes
    pane_call,            \* the last setter that was called, and its argument
    pane_calls            \* how many times a setter was called

hkVars == <<hotkey_commands, visible_hotkeys_, visible_categories_,
            toggle_states, filter, row_shown, hk_last>>

dlgVars == <<initial_index_, selector_items, selector_row, pager_layers,
             pager_layer, dlg_pc, dlg_last, dlg_error, retval, closes, io_log>>

frVars == <<acquaintances, friends_list, friends_selected, friend_name_box,
            remove_active, no_friends_notice, fr_message, fr_last>>

advVars == <<option_ids, option_default, saved_value, menu_value, adv_last>>

hpVars == <<res, resistance, hp_tooltip, hp_last>>

mpVars == <<encountered_terrains, movement_cost, total_movement, tdata,
            mp_tooltip, mp_last>>

rowVars == <<adv_preferences_, value_toggle, prefs_setter_grid, advanced_selected,
             last_selected_item_, opened_dialog, row_last>>

bndVars == <<hotkeys_, lbl_hotkey, hotkeys_selected, active_sorting, bind_dlg,
             reassign, add_hotkey_called, hotkey_item, hk_message, bnd_last>>

paneVars == <<image_mods_, controller, current_type_, icon_type_, label_name_, label_level_,
              label_race_, icon_race_, icon_alignment_, label_details_,
              tree_details_, pane_call, pane_calls>>

vars == <<hkVars, dlgVars, frVars, advVars, hpVars, mpVars, rowVars, bndVars, paneVars>>

\* what the handlers of one panel leave alone: the variables of the others
notHk == <<dlgVars, frVars, advVars, hpVars, mpVars, rowVars, bndVars, paneVars>>
notDlg == <<hkVars, frVars, advVars, hpVars, mpVars, rowVars, bndVars, paneVars>>
notFr == <<hkVars, dlgVars, advVars, hpVars, mpVars, rowVars, bndVars, paneVars>>
notAdv == <<hkVars, dlgVars, frVars, hpVars, mpVars, rowVars, bndVars, paneVars>>
notHp == <<hkVars, dlgVars, frVars, advVars, mpVars, rowVars, bndVars, paneVars>>
notMp == <<hkVars, dlgVars, frVars, advVars, hpVars, rowVars, bndVars, paneVars>>
notRow == <<hkVars, dlgVars, frVars, advVars, hpVars, mpVars, bndVars, paneVars>>
notBnd == <<hkVars, dlgVars, frVars, advVars, hpVars, mpVars, rowVars, paneVars>>
notHotkeys == <<dlgVars, frVars, advVars, hpVars, mpVars, rowVars, paneVars>>
notPane == <<hkVars, dlgVars, frVars, advVars, hpVars, mpVars, rowVars, bndVars>>

-----------------------------------------------------------------------------
(* Bounds of the model *)

\* longest text typed into the hotkey filter box
MaxFilterLen == 3

\* most layers of the main pager, and most rows of its selector
MaxLayers == 2

\* most layers of a tab stack
MaxTabs == 2

\* largest page or tab index a caller requests (the smallest is -1)
MaxIndex == 2

\* how many times the dialog is shown
MaxShows == 2

\* most choices of a COMBO option
MaxOptions == 3

\* most entries of a resistance table
MaxTypes == 2

\* largest maximum movement of a unit
MaxMoves == 3

\* most advanced preferences
MaxRows == 2

\* how many times a setter of the unit preview pane is called
MaxCalls == 3

-----------------------------------------------------------------------------
(* Strings *)

\* the case folding translation::ci_search applies to both of its arguments
ToLowerChar(c) ==
    CASE c = "A" -> "a"
      [] c = "B" -> "b"
      [] OTHER -> c

ToLower(s) == [i \in 1..Len(s) |-> ToLowerChar(s[i])]

\* std::search: whether needle occurs in hay as a contiguous subsequence
Contains(hay, needle) ==
    \E i \in 0..(Len(hay) - Len(needle)) :
        \A j \in 1..Len(needle) : hay[i + j] = needle[j]

\* translation::ci_search(s1, s2): s2 occurs in s1, letter case ignored
ci_search(s1, s2) == Contains(ToLower(s1), ToLower(s2))

\* index of the first occurrence of c in s at or after position i, 0 if none
RECURSIVE FindFrom(_, _, _)
FindFrom(s, c, i) ==
    IF i > Len(s) THEN 0
    ELSE IF s[i] = c THEN i
    ELSE FindFrom(s, c, i + 1)

\* utils::split(text, sep) with its default flags REMOVE_EMPTY | STRIP_SPACES:
\* the pieces between separators, each stripped of spaces, empty ones dropped
RECURSIVE split(_, _)
split(text, sep) ==
    IF Len(text) = 0 THEN <<>>
    ELSE LET p == FindFrom(text, sep, 1)
             piece == IF p = 0 THEN text ELSE SubSeq(text, 1, p - 1)
             rest  == IF p = 0 THEN <<>> ELSE SubSeq(text, p + 1, Len(text))
         IN  (IF Len(piece) = 0 THEN <<>> ELSE <<piece>>) \o split(rest, sep)

-----------------------------------------------------------------------------
(* Hotkeys panel: the registry, setup_hotkey_list and hotkey_filter_callback *)

\* values of hotkey::HOTKEY_CATEGORY used by the modelled registry
Categories == {1, 2, 3}

\* the descriptions of the modelled hotkey commands, in registry order
Descriptions == << <<"A", "b">>, <<"b", " ", "a">>, <<"B">> >>

\* the registries the panel is set up from: every command has a category and
\* may be hidden
Registries ==
    { [i \in 1..Len(Descriptions) |->
          [description |-> Descriptions[i], category |-> c[i], hidden |-> h[i]]] :
      c \in [1..Len(Descriptions) -> Categories],
      h \in [1..Len(Descriptions) -> BOOLEAN] }

\* the characters the user can type into a text box of the hotkeys panel
FilterChars == {"a", "b", "A", " "}

\* the rows setup_hotkey_list adds: the commands that are not hidden, in order
RECURSIVE VisibleFrom(_, _)
VisibleFrom(cmds, i) ==
    IF i > Len(cmds) THEN <<>>
    ELSE (IF cmds[i].hidden THEN <<>> ELSE <<i>>) \o VisibleFrom(cmds, i + 1)

\* the categories setup_hotkey_list inserts into visible_categories_
VisibleCategories(cmds) ==
    { cmds[i].category : i \in { k \in 1..Len(cmds) : ~cmds[k].hidden } }

\* the position (from 0) at which the loop over visible_categories_ stops:
\* the number of categories the std::set iterates before cat, or the size of
\* the set when cat is not in it
CatIndex(cats, cat) ==
    IF cat \in cats THEN Cardinality({c \in cats : c < cat})
    ELSE Cardinality(cats)

\* boost::dynamic_bitset::none()
None(bits) == \A i \in 1..Len(bits) : ~bits[i]

\* operator~ of boost::dynamic_bitset
Flip(bits) == [i \in 1..Len(bits) |-> ~bits[i]]

\* mutant of EffectiveToggles: the "nothing selected" case is forgotten
EffectiveTogglesAsGiven(states) == states

\* the toggle states the callback filters with: all on when none is on
EffectiveToggles(states) == IF None(states) THEN Flip(states) ELSE states

\* mutant of FoundWords: the loop does not stop at a word that is not found,
\* so that found is the result of the last word alone
FoundWordsNoBreak(description, words, i) ==
    IF Len(words) = 0 THEN TRUE
    ELSE ci_search(description, words[Len(words)])

\* the loop over the words of the filter text: found is the result of the last
\* word searched, and the loop stops at the first word that is not found
RECURSIVE FoundWords(_, _, _)
FoundWords(description, words, i) ==
    IF i > Len(words) THEN TRUE
    ELSE IF ~ci_search(description, words[i]) THEN FALSE
    ELSE FoundWords(description, words, i + 1)

\* found for one hotkey: true when there is no filter text
Found(description, text) ==
    IF Len(text) = 0 THEN TRUE
    ELSE FoundWords(description, split(text, " "), 1)

\* res[h] as hotkey_filter_callback computes it (h counted from 1 here)
FilterRow(cmds, visible, cats, states, text, h) ==
    LET cmd == cmds[visible[h]]
        found == Found(cmd.description, text)
        cat_index == CatIndex(cats, cmd.category)
        eff == EffectiveToggles(states)
    IN  IF cat_index < Len(eff) /\ found THEN eff[cat_index + 1] ELSE FALSE

\* the bitset handed to list_hotkeys.set_row_shown
FilterResult(cmds, visible, cats, states, text) ==
    [h \in 1..Len(visible) |-> FilterRow(cmds, visible, cats, states, text, h)]

HkInit ==
    /\ hotkey_commands \in Registries
    /\ visible_hotkeys_ = VisibleFrom(hotkey_commands, 1)
    /\ visible_categories_ = VisibleCategories(hotkey_commands)
    /\ toggle_states = [i \in 1..Cardinality(VisibleCategories(hotkey_commands)) |-> FALSE]
    /\ filter = <<>>
    /\ row_shown = [h \in 1..Len(VisibleFrom(hotkey_commands, 1)) |-> TRUE]
    /\ hk_last = "setup_hotkey_list"

\* hotkey_filter_callback with the widgets' values after the change
hotkey_filter_callback(states, text) ==
    /\ row_shown' = FilterResult(hotkey_commands, visible_hotkeys_,
                                 visible_categories_, states, text)
    /\ hk_last' = "hotkey_filter_callback"

\* the user types a character into the filter box: the text changed callback
FilterTypeChar ==
    \E c \in FilterChars :
        /\ Len(filter) < MaxFilterLen
        /\ filter' = Append(filter, c)
        /\ hotkey_filter_callback(toggle_states, filter')
        /\ UNCHANGED <<hotkey_commands, visible_hotkeys_, visible_categories_, toggle_states>>
        /\ UNCHANGED notHk

\* the user deletes the last character of the filter box
FilterBackspace ==
    /\ Len(filter) > 0
    /\ filter' = SubSeq(filter, 1, Len(filter) - 1)
    /\ hotkey_filter_callback(toggle_states, filter')
    /\ UNCHANGED <<hotkey_commands, visible_hotkeys_, visible_categories_, toggle_states>>
    /\ UNCHANGED notHk

\* the user toggles one entry of hotkey_category_menu: notify_modified
ToggleCategory ==
    \E i \in 1..Len(toggle_states) :
        /\ toggle_states' = [toggle_states EXCEPT ![i] = ~toggle_states[i]]
        /\ hotkey_filter_callback(toggle_states', filter)
        /\ UNCHANGED <<hotkey_commands, visible_hotkeys_, visible_categories_, filter>>
        /\ UNCHANGED notHk

HkNext == FilterTypeChar \/ FilterBackspace \/ ToggleCategory

HkIdle ==
    /\ hotkey_commands = <<>>
    /\ visible_hotkeys_ = <<>>
    /\ visible_categories_ = {}
    /\ toggle_states = <<>>
    /\ filter = <<>>
    /\ row_shown = <<>>
    /\ hk_last = "idle"

(* ---- what the claims about the filter speak of, stated without the loop ---- *)

\* the space-separated words of a text: its maximal runs without a space
WordsOf(text) ==
    { SubSeq(text, i, j) : <<i, j>> \in
        { ij \in (1..Len(text)) \X (1..Len(text)) :
            /\ ij[1] <= ij[2]
            /\ \A k \in ij[1]..ij[2] : text[k] # " "
            /\ (ij[1] = 1 \/ text[ij[1] - 1] = " ")
            /\ (ij[2] = Len(text) \/ text[ij[2] + 1] = " ") } }

\* two characters that differ at most in letter case
SameLetter(c, d) == c = d \/ {c, d} = {"a", "A"} \/ {c, d} = {"b", "B"}

\* word occurs in description, case-insensitively
OccursIn(word, description) ==
    \E i \in 1..Len(description) :
        /\ i + Len(word) - 1 <= Len(description)
        /\ \A j \in 1..Len(word) : SameLetter(description[i + j - 1], word[j])

\* the toggle of hotkey_category_menu that stands for the category of row h
ToggleOfRow(h) ==
    1 + Cardinality({ c \in visible_categories_ :
                        c < hotkey_commands[visible_hotkeys_[h]].category })

\* the category of row h passes the category filter
CategoryPasses(h) == None(toggle_states) \/ toggle_states[ToggleOfRow(h)]

\* C1: after hotkey_filter_callback, a row whose category passes the category
\* filter is shown if and only if the filter text is empty, or has no words, or
\* every space-separated word of it occurs, case-insensitively, in the
\* description of the row's hotkey
C1_TextFilter ==
    hk_last = "hotkey_filter_callback" =>
        \A h \in 1..Len(visible_hotkeys_) :
            CategoryPasses(h) =>
                (row_shown[h] <=>
                    \/ filter = <<>>
                    \/ WordsOf(filter) = {}
                    \/ \A w \in WordsOf(filter) :
                          OccursIn(w, hotkey_commands[visible_hotkeys_[h]].description))

\* a filter of two words, the first of which occurs in the description of a row
\* and the second of which does not, hides that row
C1_Witness ==
    /\ hk_last = "hotkey_filter_callback"
    /\ Len(filter) = 3 /\ filter[2] = " " /\ filter[1] # " " /\ filter[3] # " "
    /\ \E h \in 1..Len(visible_hotkeys_) :
          /\ CategoryPasses(h)
          /\ ~row_shown[h]
          /\ OccursIn(<<filter[1]>>, hotkey_commands[visible_hotkeys_[h]].description)
          /\ ~OccursIn(<<filter[3]>>, hotkey_commands[visible_hotkeys_[h]].description)

\* C2: after hotkey_filter_callback with no category toggled, the rows shown
\* are the rows shown with every category toggled; with at least one category
\* toggled, a row is shown only if the toggle at the position of its category
\* within visible_categories_ is on
C2_CategoryFilter ==
    hk_last = "hotkey_filter_callback" =>
        /\ None(toggle_states) =>
              row_shown = FilterResult(hotkey_commands, visible_hotkeys_, visible_categories_,
                                       [i \in 1..Len(toggle_states) |-> TRUE], filter)
        /\ ~None(toggle_states) =>
              \A h \in 1..Len(visible_hotkeys_) : row_shown[h] => toggle_states[ToggleOfRow(h)]

\* rows of two categories are shown after a callback that found no category
\* toggled
C2_Witness ==
    /\ hk_last = "hotkey_filter_callback"
    /\ Len(toggle_states) >= 2
    /\ None(toggle_states)
    /\ \E g, h \in 1..Len(visible_hotkeys_) :
          /\ ToggleOfRow(g) # ToggleOfRow(h)
          /\ row_shown[g] /\ row_shown[h]

-----------------------------------------------------------------------------
(* The dialog: the constructor's initial view, pre_show, on_page_select and
   post_show *)

\* the message of the VALIDATE in pre_show
PagerMismatch ==
    "The preferences pager and its selector listbox do not have the same number of items."

\* a layer of the main pager: whether it holds a "tab_selector" listbox and a
\* "tab_pager" stack, the number of layers of that stack, and what the two
\* have selected
Layer(has_sel, has_pager, n) ==
    [tab_selector |-> has_sel, tab_pager |-> has_pager, tab_layers |-> n,
     tab_row |-> 0, tab_layer |-> -1]

\* the layers a window definition can give the pager: a stack has at least one
\* layer; a layer without a tab stack has no tab layers
Layers ==
    { Layer(s, TRUE, n) : s \in BOOLEAN, n \in 1..MaxTabs } \cup
    { Layer(s, FALSE, 0) : s \in BOOLEAN }

Pagers == UNION { [1..n -> Layers] : n \in 1..MaxLayers }

\* std::clamp(v, lo, hi)
Clamp(v, lo, hi) == IF v < lo THEN lo ELSE IF hi < v THEN hi ELSE v

\* mutant of index_in_pager_range: the one-past-end count is taken for the
\* last index
index_in_pager_range_past_end(first, layer_count) == Clamp(first, 0, layer_count)

\* index_in_pager_range(first, pager), given pager.get_layer_count()
index_in_pager_range(first, layer_count) == Clamp(first, 0, layer_count - 1)

\* mutant of validate_counts: a selector with more rows than the pager has
\* layers is let through
validate_counts_at_least(item_count, layer_count) == item_count >= layer_count

\* the condition of the VALIDATE in pre_show
validate_counts(item_count, layer_count) == item_count = layer_count

\* mutant of to_select: the requested tab is selected on every page
to_select_everywhere(ii, main_index, tab_index) == tab_index

\* the tab pre_show selects on layer ii
to_select(ii, main_index, tab_index) == IF ii = main_index THEN tab_index ELSE 0

\* the loop of pre_show over the layers of the pager (layer i of the code is
\* element i + 1 here)
InitializedTabs(layers, main_index, second) ==
    [k \in 1..Len(layers) |->
        IF layers[k].tab_pager /\ layers[k].tab_selector
        THEN LET tab_index == index_in_pager_range(second, layers[k].tab_layers)
                 sel == to_select(k - 1, main_index, tab_index)
             IN  [layers[k] EXCEPT !.tab_row = sel, !.tab_layer = sel]
        ELSE layers[k]]

\* mutant of post_show: the preferences are written before the hotkeys are saved
post_show_swapped(log) == log \o <<"write_preferences", "save_hotkeys">>

\* post_show: the calls it adds to those made so far
post_show(log) == log \o <<"save_hotkeys", "write_preferences">>

DlgInit ==
    /\ initial_index_ \in (-1..MaxIndex) \X (-1..MaxIndex)
    /\ selector_items \in 1..MaxLayers
    /\ selector_row = 0
    /\ pager_layers \in Pagers
    /\ pager_layer = -1
    /\ dlg_pc = "constructed"
    /\ dlg_last = "preferences_dialog"
    /\ dlg_error = ""
    /\ retval = "NONE"
    /\ closes = 0
    /\ io_log = <<>>

\* modal_dialog::show calls pre_show before the window runs; a failed VALIDATE
\* throws, and nothing after it in pre_show is executed
pre_show ==
    /\ dlg_pc \in {"constructed", "closed"}
    /\ closes < MaxShows
    /\ dlg_last' = "pre_show"
    /\ IF ~validate_counts(selector_items, Len(pager_layers))
       THEN /\ dlg_pc' = "failed"
            /\ dlg_error' = PagerMismatch
            /\ UNCHANGED <<selector_row, pager_layers, pager_layer>>
       ELSE LET main_index == index_in_pager_range(initial_index_[1], Len(pager_layers))
            IN  /\ pager_layers' = InitializedTabs(pager_layers, main_index, initial_index_[2])
                /\ selector_row' = main_index
                /\ pager_layer' = main_index
                /\ dlg_pc' = "shown"
                /\ UNCHANGED dlg_error
    /\ UNCHANGED <<initial_index_, selector_items, retval, closes, io_log>>
    /\ UNCHANGED notDlg

\* the user selects a row of "selector": on_page_select, set_visible_page
on_page_select ==
    \E row \in 0..(selector_items - 1) :
        /\ dlg_pc = "shown"
        /\ selector_row' = row
        /\ pager_layer' = (IF row < 0 THEN 0 ELSE row)
        /\ dlg_last' = "on_page_select"
        /\ UNCHANGED <<initial_index_, selector_items, pager_layers, dlg_pc,
                       dlg_error, retval, closes, io_log>>
        /\ UNCHANGED notDlg

\* the window is closed with some return value: modal_dialog::show calls post_show
close_dialog ==
    \E r \in {"OK", "CANCEL"} :
        /\ dlg_pc = "shown"
        /\ retval' = r
        /\ io_log' = post_show(io_log)
        /\ closes' = closes + 1
        /\ dlg_pc' = "closed"
        /\ dlg_last' = "post_show"
        /\ UNCHANGED <<initial_index_, selector_items, selector_row, pager_layers,
                       pager_layer, dlg_error>>
        /\ UNCHANGED notDlg

DlgNext == pre_show \/ on_page_select \/ close_dialog

DlgIdle ==
    /\ initial_index_ = <<0, 0>>
    /\ selector_items = 0
    /\ selector_row = 0
    /\ pager_layers = <<>>
    /\ pager_layer = -1
    /\ dlg_pc = "idle"
    /\ dlg_last = "idle"
    /\ dlg_error = ""
    /\ retval = "NONE"
    /\ closes = 0
    /\ io_log = <<>>

(* ---- the claims about the dialog ---- *)

\* the least of a and b, and the greatest
Least(a, b) == IF a <= b THEN a ELSE b
Greatest(a, b) == IF a >= b THEN a ELSE b

\* index brought into [0, count - 1]
InRange(index, count) == Greatest(0, Least(index, count - 1))

\* a step in which pre_show runs to its end
PreShowDone == dlg_pc \in {"constructed", "closed"} /\ dlg_pc' = "shown"

\* C3: every time the dialog is closed, whatever its return value, save_hotkeys
\* is called and then write_preferences: the calls made so far are that pair,
\* once per close
C3_PostShowSaves ==
    /\ Len(io_log) = 2 * closes
    /\ \A k \in 1..closes :
          io_log[2 * k - 1] = "save_hotkeys" /\ io_log[2 * k] = "write_preferences"

\* the dialog has been closed twice, the last time with CANCEL
C3_Witness == closes = 2 /\ retval = "CANCEL" /\ dlg_last = "post_show"

\* C4: after pre_show the selected row of "selector" and the selected layer of
\* "pager" are the same index: the requested main index brought into
\* [0, layer_count - 1]
C4_MainPage ==
    (dlg_last = "pre_show" /\ dlg_pc = "shown") =>
        /\ selector_row = pager_layer
        /\ selector_row = InRange(initial_index_[1], Len(pager_layers))
        /\ selector_row \in 0..(Len(pager_layers) - 1)

\* a requested main index past the last layer of a pager of two layers selects
\* the last layer
C4_Witness ==
    /\ dlg_last = "pre_show" /\ dlg_pc = "shown"
    /\ Len(pager_layers) = 2
    /\ initial_index_[1] >= Len(pager_layers)
    /\ selector_row = 1 /\ pager_layer = 1

\* C5: pre_show gives every layer that has both a tab bar and a tab stack the
\* same selected row and selected layer: the requested tab brought into the
\* range of that stack on the initial main page, 0 on every other layer; a
\* layer lacking either widget is left as it was
C5_Tabs ==
    [][PreShowDone =>
        \A k \in 1..Len(pager_layers) :
            IF pager_layers[k].tab_selector /\ pager_layers[k].tab_pager
            THEN /\ pager_layers'[k].tab_row = pager_layers'[k].tab_layer
                 /\ pager_layers'[k].tab_row =
                       (IF k - 1 = InRange(initial_index_[1], Len(pager_layers))
                        THEN InRange(initial_index_[2], pager_layers[k].tab_layers)
                        ELSE 0)
            ELSE pager_layers'[k] = pager_layers[k]]_vars

\* two pages with tabs: the initial page shows the last tab of its stack, for
\* a requested tab past it, and the other page shows tab 0
C5_Witness ==
    /\ dlg_last = "pre_show" /\ dlg_pc = "shown"
    /\ Len(pager_layers) = 2
    /\ \A k \in 1..2 : pager_layers[k].tab_selector /\ pager_layers[k].tab_pager
    /\ \E k \in 1..2 :
          /\ k - 1 = selector_row
          /\ pager_layers[k].tab_layers = 2
          /\ initial_index_[2] >= 2
          /\ pager_layers[k].tab_row = 1 /\ pager_layers[k].tab_layer = 1
          /\ pager_layers[3 - k].tab_row = 0 /\ pager_layers[3 - k].tab_layer = 0

\* C6: when the selector's row count differs from the pager's layer count,
\* pre_show fails validation with the message about the pager and its
\* selector, and selects no main page and no tab
C6_Validation ==
    [][(dlg_last' = "pre_show" /\ dlg_last # "pre_show"
          /\ selector_items # Len(pager_layers)) =>
        /\ dlg_pc' = "failed"
        /\ dlg_error' = PagerMismatch
        /\ UNCHANGED <<selector_row, pager_layer, pager_layers>>]_vars

\* a selector of two rows over a pager of one layer: the validation has failed
\* and the pager still shows no selected layer
C6_Witness ==
    /\ dlg_pc = "failed"
    /\ dlg_error = PagerMismatch
    /\ selector_items = 2 /\ Len(pager_layers) = 1
    /\ pager_layer = -1
    /\ pager_layers[1].tab_layer = -1

-----------------------------------------------------------------------------
(* Multiplayer panel: the friends list *)

\* the characters of a user name (alphanumeric)
NameChars == {"a", "b", "x", "y"}

\* what the user can put into friend_name_box: a nick, optionally followed by
\* a space and notes
FriendTexts ==
    { <<>>, <<"a">>, <<"b">>, <<"a", " ", "x">>, <<"a", " ", "y">>, <<"b", " ", "x">>,
      <<"a", " ">>, <<" ", "a">>, <<"!">>, <<"a", "!">> }

\* the code of a character, as std::string compares them
CharCode(c) ==
    CASE c = " " -> 32 [] c = "!" -> 33 [] c = "a" -> 97 [] c = "b" -> 98
      [] c = "x" -> 120 [] c = "y" -> 121 [] OTHER -> 0

\* std::string's operator<, the order of the keys of the acquaintances map
RECURSIVE StrLess(_, _)
StrLess(s, t) ==
    IF Len(t) = 0 THEN FALSE
    ELSE IF Len(s) = 0 THEN TRUE
    ELSE IF s[1] # t[1] THEN CharCode(s[1]) < CharCode(t[1])
    ELSE StrLess(Tail(s), Tail(t))

\* the keys of the map in iteration order
RECURSIVE SortedKeys(_)
SortedKeys(keys) ==
    IF keys = {} THEN <<>>
    ELSE LET first == CHOOSE k \in keys : \A o \in keys \ {k} : StrLess(k, o)
         IN  <<first>> \o SortedKeys(keys \ {first})

\* utils::isvalid_wildcard, for the characters modelled: a user name is not
\* empty and is made of alphanumeric characters
isvalid_wildcard(username) ==
    Len(username) > 0 /\ \A i \in 1..Len(username) : username[i] \in NameChars

\* preferences::add_acquaintance(nick, mode, notes): no entry for an invalid
\* nick; else the entry is inserted or assigned, and added_new tells which
add_acquaintance(acq, nick, mode, notes) ==
    IF ~isvalid_wildcard(nick)
    THEN [entry |-> FALSE, added_new |-> FALSE, acq |-> acq]
    ELSE [entry |-> TRUE,
          added_new |-> nick \notin DOMAIN acq,
          acq |-> [n \in (DOMAIN acq) \cup {nick} |->
                      IF n = nick THEN [nick |-> nick, status |-> mode, notes |-> notes]
                      ELSE acq[n]]]

\* get_friends_list_row_data(entry): the labels of the three widgets of a row
get_friends_list_row_data(entry) ==
    LET image == IF entry.status = "ignore" THEN "ignore.png" ELSE "friend.png"
        descriptor == IF entry.status = "ignore" THEN "ignored" ELSE "friend"
        notes == IF Len(entry.notes) # 0
                 THEN <<" <small>(">> \o entry.notes \o <<")</small>">>
                 ELSE <<>>
    IN  [friend_icon |-> <<"misc/status-", image>>,
         friend_name |-> entry.nick \o notes,
         friend_status |-> <<"<small>", descriptor, "</small>">>]

\* listbox::select_row(row): a row the list does not have is not selected
select_row(count, selected, row) ==
    IF row >= 0 /\ row < count THEN row ELSE selected

\* update_friends_list_controls: the selected row it leaves
controls_selected(count, selected) ==
    IF count = 0 THEN selected
    ELSE select_row(count, selected, IF count - 1 < selected THEN count - 1 ELSE selected)

\* the loop of add_friend_list_entry over the rows: the first row whose
\* friend_name label equals the nick of the entry, 0 if there is none
RECURSIVE FindRow(_, _, _)
FindRow(rows, nick, i) ==
    IF i > Len(rows) THEN 0
    ELSE IF rows[i].friend_name = nick THEN i
    ELSE FindRow(rows, nick, i + 1)

\* the rows add_friend_list_entry leaves for an accepted entry
rows_after_add(rows, entry, added_new) ==
    IF added_new THEN Append(rows, get_friends_list_row_data(entry))
    ELSE LET i == FindRow(rows, entry.nick, 1)
         IN  IF i = 0 THEN rows
             ELSE [rows EXCEPT ![i] = get_friends_list_row_data(entry)]

\* mutant of box_after_rejection: the text box is cleared before the entry is
\* looked at
box_cleared_first(text) == <<>>

\* the text box after add_friend_list_entry returned early: textbox.clear()
\* comes after both returns
box_after_rejection(text) == text

\* the maps of saved acquaintances the dialog can be constructed over
SavedEntries(nick) ==
    { [nick |-> nick, status |-> m, notes |-> r] :
        m \in {"friend", "ignore"}, r \in {<<>>, <<"x">>} }

SavedAcquaintances ==
    { f \in UNION { [d -> UNION { SavedEntries(n) : n \in d }] :
                      d \in SUBSET { <<"a">>, <<"b">> } } :
        \A n \in DOMAIN f : f[n].nick = n }

\* the constructor: the list is cleared, gets a row per acquaintance in the
\* order of the map, and the controls are updated
FrInit ==
    /\ acquaintances \in SavedAcquaintances
    /\ friends_list = [i \in 1..Cardinality(DOMAIN acquaintances) |->
                          get_friends_list_row_data(
                              acquaintances[SortedKeys(DOMAIN acquaintances)[i]])]
    /\ friends_selected = controls_selected(Cardinality(DOMAIN acquaintances), -1)
    /\ friend_name_box = <<>>
    /\ remove_active = (Cardinality(DOMAIN acquaintances) # 0)
    /\ no_friends_notice = (Cardinality(DOMAIN acquaintances) = 0)
    /\ fr_message = ""
    /\ fr_last = "initialize_callbacks"

\* the user edits the text box
enter_friend_text ==
    \E text \in FriendTexts :
        /\ friend_name_box' = text
        /\ fr_message' = ""
        /\ fr_last' = "friend_name_box"
        /\ UNCHANGED <<acquaintances, friends_list, friends_selected, remove_active,
                       no_friends_notice>>
        /\ UNCHANGED notFr

\* the user selects a row: on_friends_list_select
on_friends_list_select ==
    \E sel \in 0..(Len(friends_list) - 1) :
        /\ friends_selected' = sel
        /\ IF sel < 0 \/ sel >= Cardinality(DOMAIN acquaintances)
           THEN UNCHANGED friend_name_box
           ELSE LET who == acquaintances[SortedKeys(DOMAIN acquaintances)[sel + 1]]
                IN  friend_name_box' = who.nick \o <<" ">> \o who.notes
        /\ fr_message' = ""
        /\ fr_last' = "on_friends_list_select"
        /\ UNCHANGED <<acquaintances, friends_list, remove_active, no_friends_notice>>
        /\ UNCHANGED notFr

\* the "add_friend" (is_friend) or "add_ignored" button: add_friend_list_entry
add_friend_list_entry ==
    \E is_friend \in BOOLEAN :
        /\ fr_last' = "add_friend_list_entry"
        /\ IF Len(friend_name_box) = 0
           THEN /\ fr_message' = "No username specified"
                /\ friend_name_box' = box_after_rejection(friend_name_box)
                /\ UNCHANGED <<acquaintances, friends_list, friends_selected,
                               remove_active, no_friends_notice>>
           ELSE LET pos == FindFrom(friend_name_box, " ", 1)
                    reason == IF pos # 0
                              THEN SubSeq(friend_name_box, pos + 1, Len(friend_name_box))
                              ELSE <<>>
                    username == IF pos # 0
                                THEN SubSeq(friend_name_box, 1, pos - 1)
                                ELSE friend_name_box
                    added == add_acquaintance(acquaintances, username,
                                              IF is_friend THEN "friend" ELSE "ignore", reason)
                IN  /\ acquaintances' = added.acq
                    /\ IF ~added.entry
                       THEN /\ fr_message' = "Invalid username"
                            /\ friend_name_box' = box_after_rejection(friend_name_box)
                            /\ UNCHANGED <<friends_list, friends_selected,
                                           remove_active, no_friends_notice>>
                       ELSE /\ fr_message' = ""
                            /\ friend_name_box' = <<>>
                            /\ friends_list' = rows_after_add(friends_list,
                                                   added.acq[username], added.added_new)
                            /\ friends_selected' =
                                  controls_selected(Len(friends_list'), friends_selected)
                            /\ remove_active' = (Len(friends_list') # 0)
                            /\ no_friends_notice' = (Len(friends_list') = 0)
        /\ UNCHANGED notFr

FrNext == enter_friend_text \/ on_friends_list_select \/ add_friend_list_entry

FrIdle ==
    /\ acquaintances = <<>>
    /\ friends_list = <<>>
    /\ friends_selected = -1
    /\ friend_name_box = <<>>
    /\ remove_active = FALSE
    /\ no_friends_notice = FALSE
    /\ fr_message = ""
    /\ fr_last = "idle"

(* ---- the claims about the friends list ---- *)

\* the nick and the notes the text of the box stands for
NickOfBox == 
    IF \E i \in 1..Len(friend_name_box) : friend_name_box[i] = " "
    THEN SubSeq(friend_name_box, 1,
                (CHOOSE i \in 1..Len(friend_name_box) :
                    /\ friend_name_box[i] = " "
                    /\ \A j \in 1..(i - 1) : friend_name_box[j] # " ") - 1)
    ELSE friend_name_box

\* a step of add_friend_list_entry that accepts the name
AddAccepted ==
    /\ fr_last' = "add_friend_list_entry"
    /\ Len(friend_name_box) # 0
    /\ isvalid_wildcard(NickOfBox)

\* C7: when add_friend_list_entry accepts a name: a new acquaintance adds
\* exactly one row, the row of its data; for an acquaintance already there,
\* the row showing it is replaced in place by a row with the updated data, so
\* that the row count is unchanged and no row shows the old data
C7_AddReplacesRow ==
    [][AddAccepted =>
        IF NickOfBox \notin DOMAIN acquaintances
        THEN friends_list' =
                Append(friends_list, get_friends_list_row_data(acquaintances'[NickOfBox]))
        ELSE \A i \in 1..Len(friends_list) :
                friends_list[i] = get_friends_list_row_data(acquaintances[NickOfBox]) =>
                    /\ Len(friends_list') = Len(friends_list)
                    /\ friends_list'[i] = get_friends_list_row_data(acquaintances'[NickOfBox])
                    /\ \A j \in 1..Len(friends_list') :
                          j # i => friends_list'[j] = friends_list[j]]_vars

\* C8: add_friend_list_entry with an empty text box shows "No username
\* specified", and with a name add_acquaintance gives no entry for shows
\* "Invalid username"; either way the rows, the text of the box and the state
\* of the remove button and of the notice are as before
C8_AddRejected ==
    [][(fr_last' = "add_friend_list_entry"
          /\ (Len(friend_name_box) = 0 \/ ~isvalid_wildcard(NickOfBox))) =>
        /\ fr_message' = (IF Len(friend_name_box) = 0 THEN "No username specified"
                          ELSE "Invalid username")
        /\ UNCHANGED <<friends_list, friend_name_box, remove_active,
                       no_friends_notice>>]_vars

\* an invalid name was rejected with rows in the list and the text still in
\* the box
C8_Witness ==
    /\ fr_last = "add_friend_list_entry"
    /\ fr_message = "Invalid username"
    /\ friend_name_box = <<"a", "!">>
    /\ Len(friends_list) = 2
    /\ remove_active /\ ~no_friends_notice

-----------------------------------------------------------------------------
(* Advanced panel: the COMBO case of initialize_callbacks *)

\* the ids a choice of the option can have
ChoiceIds == {"a", "b", "c"}

\* an id no choice has: a saved value that has gone stale
StaleId == "z"

\* the sequences of at most n elements of S
SeqsUpTo(S, n) == UNION { [1..k -> S] : k \in 0..n }

\* std::distance(begin, std::find(begin, end, value)): the index (from 0) of
\* the first element equal to value, the size when there is none
RECURSIVE DistanceToFind(_, _, _)
DistanceToFind(ids, value, i) ==
    IF i > Len(ids) THEN Len(ids)
    ELSE IF ids[i] = value THEN i - 1
    ELSE DistanceToFind(ids, value, i + 1)

\* preferences::get(key, def): the saved value, def when nothing is saved
get_pref(saved, def) == IF saved = <<>> THEN def ELSE saved[1]

\* mutant of initial_selection: the reset misses the one-past-end index
initial_selection_off_by_one(ids, value) ==
    LET selected == DistanceToFind(ids, value, 1)
    IN  IF selected < 0 \/ selected > Len(ids) THEN 0 ELSE selected

\* the initial selection of the menu: the index found, reset to 0 when the
\* saved option value was invalid
initial_selection(ids, value) ==
    LET selected == DistanceToFind(ids, value, 1)
    IN  IF selected < 0 \/ selected >= Len(ids) THEN 0 ELSE selected

AdvInit ==
    /\ option_ids \in SeqsUpTo(ChoiceIds, MaxOptions)
    /\ option_default \in ChoiceIds \cup {StaleId}
    /\ saved_value \in {<<>>} \cup { <<v>> : v \in ChoiceIds \cup {StaleId} }
    /\ menu_value = -1
    /\ adv_last = "preferences_dialog"

\* the COMBO case: menu.set_values(menu_data, selected)
initialize_combo ==
    /\ adv_last = "preferences_dialog"
    /\ menu_value' = initial_selection(option_ids, get_pref(saved_value, option_default))
    /\ adv_last' = "initialize_callbacks"
    /\ UNCHANGED <<option_ids, option_default, saved_value>>
    /\ UNCHANGED notAdv

\* the user picks an entry of the menu: set(pref_name, option_ids[value])
on_combo_modified ==
    \E value \in 0..(Len(option_ids) - 1) :
        /\ adv_last # "preferences_dialog"
        /\ menu_value' = value
        /\ saved_value' = <<option_ids[value + 1]>>
        /\ adv_last' = "on_modified"
        /\ UNCHANGED <<option_ids, option_default>>
        /\ UNCHANGED notAdv

AdvNext == initialize_combo \/ on_combo_modified

AdvIdle ==
    /\ option_ids = <<>>
    /\ option_default = ""
    /\ saved_value = <<>>
    /\ menu_value = -1
    /\ adv_last = "idle"

(* ---- the claim about the COMBO option ---- *)

\* the value the option has: the saved one, the default when nothing is saved
OptionValue == IF saved_value = <<>> THEN option_default ELSE saved_value[1]

\* C9: the initially selected entry of a COMBO option is the index of the
\* saved value (of the default when nothing is saved) among the option ids in
\* declaration order; a value that matches no id selects entry 0; with at
\* least one choice the selected index is within [0, number of options - 1]
C9_ComboSelection ==
    adv_last = "initialize_callbacks" =>
        /\ (\E i \in 1..Len(option_ids) : option_ids[i] = OptionValue) =>
              /\ menu_value + 1 \in 1..Len(option_ids)
              /\ option_ids[menu_value + 1] = OptionValue
              /\ \A j \in 1..menu_value : option_ids[j] # OptionValue
        /\ (\A i \in 1..Len(option_ids) : option_ids[i] # OptionValue) => menu_value = 0
        /\ Len(option_ids) >= 1 => menu_value \in 0..(Len(option_ids) - 1)

\* a saved value that matches none of three ids has reset the selection to 0
C9_Witness ==
    /\ adv_last = "initialize_callbacks"
    /\ Len(option_ids) = 3
    /\ saved_value = <<StaleId>>
    /\ option_default = option_ids[3] /\ option_ids[1] # option_ids[3]
    /\ menu_value = 0

-----------------------------------------------------------------------------
(* Unit preview pane: get_hp_tooltip.  A tooltip is a sequence of pieces of
   text, in the order they are streamed *)

DamageTypes == {"arcane", "blade", "fire"}

\* what get(type, attacker) can return
ResistanceValues == {0, 80, 130}

\* the resistance tables: at most MaxTypes damage types, none of them twice
ResistanceTables ==
    { t \in SeqsUpTo(DamageTypes, MaxTypes) :
        \A i, j \in 1..Len(t) : i # j => t[i] # t[j] }

\* translation::dgettext("wesnoth", msgid)
dgettext(msgid) == <<"dgettext:", msgid>>

\* utils::signed_percent(val): the sign, the magnitude and a percent sign
signed_percent(val) ==
    <<IF val >= 0 THEN "+" ELSE "-", ToString(IF val >= 0 THEN val ELSE -val), "%">>

\* unit_helper::resistance_color(resistance): a colour that depends on the value
resistance_color(val) == <<"color:", ToString(val)>>

\* mutant of resistance_line: the defender's value is not shown
resistance_line_attacker_only(type, get) ==
    LET res_att == 100 - get[type][TRUE]
    IN  dgettext(type) \o <<": ">>
        \o <<"<span color='">> \o resistance_color(res_att) \o <<"'>\t">>
        \o signed_percent(res_att) \o <<"</span>">>

\* one line of the resistances table
resistance_line(type, get) ==
    LET res_att == 100 - get[type][TRUE]
        res_def == 100 - get[type][FALSE]
    IN  dgettext(type) \o <<": ">> \o
        (IF res_att = res_def
         THEN <<"<span color='">> \o resistance_color(res_def) \o <<"'>\t">>
              \o signed_percent(res_def) \o <<"</span>">>
         ELSE <<"<span color='">> \o resistance_color(res_att) \o <<"'>\t">>
              \o signed_percent(res_att) \o <<"</span>">> \o <<"/">>
              \o <<"<span color='">> \o resistance_color(res_def) \o <<"'>">>
              \o signed_percent(res_def) \o <<"</span>">>)

\* att_def_diff after the loop over the table
att_def_diff(table, get) ==
    \E i \in 1..Len(table) : 100 - get[table[i]][TRUE] # 100 - get[table[i]][FALSE]

\* the lines of the table, each after a line break and a bullet
RECURSIVE BulletLines(_, _, _)
BulletLines(table, get, i) ==
    IF i > Len(table) THEN <<>>
    ELSE <<"\n", "unicode_bullet", " ">> \o resistance_line(table[i], get)
         \o BulletLines(table, get, i + 1)

\* get_hp_tooltip(res, get)
get_hp_tooltip(table, get) ==
    <<"<big>", "Resistances: ", "</big>">>
    \o (IF att_def_diff(table, get) THEN <<"(Att / Def)">> ELSE <<>>)
    \o BulletLines(table, get, 1)

HpInit ==
    /\ res \in ResistanceTables
    /\ resistance \in [DamageTypes -> [BOOLEAN -> ResistanceValues]]
    /\ hp_tooltip = <<>>
    /\ hp_last = "finalize_setup"

\* the pane builds the tooltip of the hp_xp_mp node
show_hp_tooltip ==
    /\ hp_last = "finalize_setup"
    /\ hp_tooltip' = get_hp_tooltip(res, resistance)
    /\ hp_last' = "get_hp_tooltip"
    /\ UNCHANGED <<res, resistance>>
    /\ UNCHANGED notHp

HpNext == show_hp_tooltip

HpIdle ==
    /\ res = <<>>
    /\ resistance = <<>>
    /\ hp_tooltip = <<>>
    /\ hp_last = "idle"

(* ---- the claim about the resistance tooltip ---- *)

\* where the bullets of a tooltip are, in order
RECURSIVE BulletsFrom(_, _)
BulletsFrom(t, i) ==
    IF i > Len(t) THEN <<>>
    ELSE (IF t[i] = "unicode_bullet" THEN <<i>> ELSE <<>>) \o BulletsFrom(t, i + 1)

\* the k-th bullet line of a tooltip: from its bullet to the next line break
BulletLine(t, k) ==
    LET b == BulletsFrom(t, 1)
        last == IF k < Len(b) THEN b[k + 1] - 2 ELSE Len(t)
    IN  SubSeq(t, b[k], last)

\* the percentages a line shows, in order: each a sign and a magnitude
RECURSIVE PercentsFrom(_, _)
PercentsFrom(line, i) ==
    IF i > Len(line) THEN <<>>
    ELSE (IF line[i] = "%" THEN <<<<line[i - 2], line[i - 1]>>>> ELSE <<>>)
         \o PercentsFrom(line, i + 1)

\* how a percentage is to be shown
Shown(v) == <<IF v >= 0 THEN "+" ELSE "-", ToString(IF v >= 0 THEN v ELSE -v)>>

Occurs(piece, t) == \E i \in 1..Len(t) : t[i] = piece

\* C10: the tooltip of get_hp_tooltip has one bullet line per entry of the
\* resistance table, in table order; a line shows 100 - get(type, attacker)
\* and 100 - get(type, defender), as one value when they are equal and as
\* attack/defence otherwise; the header has "(Att / Def)" if and only if some
\* damage type of the table has differing values
C10_HpTooltip ==
    hp_last = "get_hp_tooltip" =>
        LET bullets == BulletsFrom(hp_tooltip, 1)
            header == SubSeq(hp_tooltip, 1,
                             IF Len(bullets) = 0 THEN Len(hp_tooltip) ELSE bullets[1] - 2)
        IN  /\ Len(bullets) = Len(res)
            /\ \A k \in 1..Len(res) :
                  LET line == BulletLine(hp_tooltip, k)
                      att == 100 - resistance[res[k]][TRUE]
                      def == 100 - resistance[res[k]][FALSE]
                  IN  /\ SubSeq(line, 3, 4) = <<"dgettext:", res[k]>>
                      /\ PercentsFrom(line, 1) =
                            (IF att = def THEN <<Shown(att)>> ELSE <<Shown(att), Shown(def)>>)
                      /\ Occurs("/", line) <=> att # def
            /\ Occurs("(Att / Def)", header) <=>
                  \E k \in 1..Len(res) :
                      resistance[res[k]][TRUE] # resistance[res[k]][FALSE]

\* a table of two types, the first with one value and the second with differing
\* attack and defence values, one of them negative
C10_Witness ==
    /\ hp_last = "get_hp_tooltip"
    /\ Len(res) = 2
    /\ resistance[res[1]][TRUE] = resistance[res[1]][FALSE]
    /\ resistance[res[2]][TRUE] = 130 /\ resistance[res[2]][FALSE] = 80
    /\ Occurs("(Att / Def)", hp_tooltip)
    /\ Len(BulletsFrom(hp_tooltip, 1)) = 2

-----------------------------------------------------------------------------
(* Unit preview pane: get_mp_tooltip *)

\* the terrain codes a player has encountered; "_f" is t_translation::FOGGED
TerrainCodes == {"Ff", "Gg", "_f"}

\* tdata->get_terrain_info(terrain)
get_terrain_info(terrain) ==
    CASE terrain = "Ff" -> [name |-> "Forest", is_indivisible |-> TRUE, is_nonnull |-> TRUE]
      [] terrain = "Gg" -> [name |-> "Grassland", is_indivisible |-> TRUE, is_nonnull |-> TRUE]
      [] terrain = "_f" -> [name |-> "Fog", is_indivisible |-> TRUE, is_nonnull |-> TRUE]

\* the order of std::set<terrain_movement>: by name
TerrainNameOrder == <<"Forest", "Grassland">>

\* what get(terrain) can return
MovementCosts == {0, 1, 2, 3, 5, 8, 9}

\* the terrains the first loop puts into terrain_moves
ListedTerrains(encountered) ==
    { t \in encountered :
        /\ t # "_f"
        /\ get_terrain_info(t).is_indivisible
        /\ get_terrain_info(t).is_nonnull }

\* terrain_moves after the first loop, in the order the second loop reads it
RECURSIVE TerrainMovesFrom(_, _, _)
TerrainMovesFrom(encountered, get, i) ==
    IF i > Len(TerrainNameOrder) THEN <<>>
    ELSE LET here == { t \in ListedTerrains(encountered) :
                         get_terrain_info(t).name = TerrainNameOrder[i] }
         IN  (IF here = {} THEN <<>>
              ELSE LET t == CHOOSE t \in here : TRUE
                   IN  <<[name |-> TerrainNameOrder[i], moves |-> get[t]]>>)
             \o TerrainMovesFrom(encountered, get, i + 1)

\* game_config::red_to_green(val, true).to_hex_string(): a colour of the value
red_to_green(val) == <<"red_to_green:", ToString(val)>>

\* a / b of two ints: the quotient truncated towards zero
int_div(a, b) ==
    LET abs(x) == IF x >= 0 THEN x ELSE -x
        q == abs(a) \div abs(b)
    IN  IF (a >= 0) = (b >= 0) THEN q ELSE -q

\* mutant of movement_cost_text: no margin, every cost above the maximum
\* movement is replaced by the dash
movement_cost_text_no_margin(moves, total) ==
    IF moves > total THEN <<"unicode_figure_dash">> ELSE <<ToString(moves)>>

\* how the cost is streamed: a dash beyond the 5 MP margin, in parentheses
\* when the unit cannot move there in one turn, and plain otherwise
movement_cost_text(moves, total) ==
    LET cannot_move == moves > total
    IN  IF cannot_move /\ moves > total + 5 THEN <<"unicode_figure_dash">>
        ELSE IF cannot_move THEN <<"(", ToString(moves), ")">>
        ELSE <<ToString(moves)>>

RECURSIVE Hexagons(_)
Hexagons(n) == IF n <= 0 THEN <<>> ELSE <<"\\u2b23\\u200b">> \o Hexagons(n - 1)

\* mutant of movement_hexes: the quotient is rounded up
movement_hexes_rounded_up(moves, total) ==
    IF moves # 0
    THEN <<" ">> \o Hexagons(int_div(total + moves - 1, moves))
    ELSE <<>>

\* the hexagons after the cost: one per hex the unit moves in a turn
movement_hexes(moves, total) ==
    IF moves # 0
    THEN LET movement_hexes_per_turn == int_div(total, moves)
         IN  <<" ">> \o Hexagons(movement_hexes_per_turn)
    ELSE <<>>

\* the second loop: one line per entry of terrain_moves
RECURSIVE TerrainLines(_, _, _)
TerrainLines(moves, total, i) ==
    IF i > Len(moves) THEN <<>>
    ELSE LET tm == moves[i]
             movement_red_to_green == 100 - 25 * tm.moves
         IN  <<"\n", "unicode_bullet", " ", tm.name, ": ">>
             \o <<"<span color='">> \o red_to_green(movement_red_to_green) \o <<"'>">>
             \o movement_cost_text(tm.moves, total)
             \o movement_hexes(tm.moves, total)
             \o <<"</span>">>
             \o TerrainLines(moves, total, i + 1)

\* get_mp_tooltip(total_movement, get)
get_mp_tooltip(total, get, encountered, loaded) ==
    IF ~loaded THEN <<>>
    ELSE <<"<big>", "Movement Costs:", "</big>">>
         \o TerrainLines(TerrainMovesFrom(encountered, get, 1), total, 1)

MpInit ==
    /\ encountered_terrains \in SUBSET TerrainCodes
    /\ movement_cost \in [TerrainCodes -> MovementCosts]
    /\ total_movement \in 0..MaxMoves
    /\ tdata \in BOOLEAN
    /\ mp_tooltip = <<>>
    /\ mp_last = "finalize_setup"

\* the pane builds the tooltip of the movement label
show_mp_tooltip ==
    /\ mp_last = "finalize_setup"
    /\ mp_tooltip' = get_mp_tooltip(total_movement, movement_cost,
                                    encountered_terrains, tdata)
    /\ mp_last' = "get_mp_tooltip"
    /\ UNCHANGED <<encountered_terrains, movement_cost, total_movement, tdata>>
    /\ UNCHANGED notMp

MpNext == show_mp_tooltip

MpIdle ==
    /\ encountered_terrains = {}
    /\ movement_cost = <<>>
    /\ total_movement = 0
    /\ tdata = FALSE
    /\ mp_tooltip = <<>>
    /\ mp_last = "idle"

(* ---- the claims about the movement tooltip ---- *)

\* the terrains the tooltip has to list, in the order of their names
ListedNames ==
    SelectSeq(TerrainNameOrder,
              LAMBDA n : \E t \in encountered_terrains :
                             t # "_f" /\ get_terrain_info(t).name = n)

\* the cost of the terrain of that name
CostOf(n) ==
    movement_cost[CHOOSE t \in TerrainCodes : get_terrain_info(t).name = n]

\* where a piece first occurs in a line, 0 if nowhere
FirstAt(piece, line) ==
    IF Occurs(piece, line)
    THEN CHOOSE i \in 1..Len(line) :
            line[i] = piece /\ \A j \in 1..(i - 1) : line[j] # piece
    ELSE 0

\* what a line shows as the cost: the pieces after the opening of the span,
\* up to the space before the hexagons or the end of the span
CostShown(line) ==
    LET from == FirstAt("'>", line) + 1
        rest == SubSeq(line, from, Len(line))
        upto == IF Occurs(" ", rest) THEN FirstAt(" ", rest) ELSE FirstAt("</span>", rest)
    IN  SubSeq(rest, 1, upto - 1)

\* how many hexagons a line shows
HexagonsShown(line) == Cardinality({ i \in 1..Len(line) : line[i] = "\\u2b23\\u200b" })

\* C11: every listed terrain with cost m, for a unit of maximum movement T,
\* shows the plain number m when m <= T, "(m)" when T < m <= T + 5, and a
\* dash in place of the number when m > T + 5
C11_CostDisplay ==
    (mp_last = "get_mp_tooltip" /\ tdata) =>
        /\ Len(BulletsFrom(mp_tooltip, 1)) = Len(ListedNames)
        /\ \A k \in 1..Len(ListedNames) :
              LET line == BulletLine(mp_tooltip, k)
                  m == CostOf(ListedNames[k])
                  T == total_movement
              IN  /\ line[3] = ListedNames[k]
                  /\ m <= T => CostShown(line) = <<ToString(m)>>
                  /\ (T < m /\ m <= T + 5) => CostShown(line) = <<"(", ToString(m), ")">>
                  /\ m > T + 5 => CostShown(line) = <<"unicode_figure_dash">>

\* two terrains are listed for a unit of 3 MP: one costs 8, at the end of the
\* margin, and is shown in parentheses; the other costs 9 and is a dash
C11_Witness ==
    /\ mp_last = "get_mp_tooltip" /\ tdata
    /\ total_movement = 3
    /\ Len(ListedNames) = 2
    /\ CostOf(ListedNames[1]) = 8 /\ CostOf(ListedNames[2]) = 9
    /\ CostShown(BulletLine(mp_tooltip, 1)) = <<"(", "8", ")">>
    /\ CostShown(BulletLine(mp_tooltip, 2)) = <<"unicode_figure_dash">>

\* C18: a listed terrain with cost m, for a unit of maximum movement T, shows
\* T / m hexagons (the integer quotient) when m is not 0 and none when m is
\* 0; a terrain with m > T >= 0 shows no hexagon
C18_HexagonCount ==
    (mp_last = "get_mp_tooltip" /\ tdata) =>
        \A k \in 1..Len(ListedNames) :
            LET line == BulletLine(mp_tooltip, k)
                m == CostOf(ListedNames[k])
                T == total_movement
            IN  /\ m # 0 => HexagonsShown(line) = T \div m
                /\ m = 0 => HexagonsShown(line) = 0
                /\ (m > T /\ T >= 0) => HexagonsShown(line) = 0

\* a unit of 3 MP: a terrain of cost 0 and a terrain of cost 2, which shows
\* one hexagon
C18_Witness ==
    /\ mp_last = "get_mp_tooltip" /\ tdata
    /\ total_movement = 3
    /\ Len(ListedNames) = 2
    /\ CostOf(ListedNames[1]) = 0 /\ CostOf(ListedNames[2]) = 2
    /\ HexagonsShown(BulletLine(mp_tooltip, 1)) = 0
    /\ HexagonsShown(BulletLine(mp_tooltip, 2)) = 1

-----------------------------------------------------------------------------
(* Advanced panel: the rows of "advanced_prefs" and their selection *)

\* avp::avd_type
OptionTypes == {"TOGGLE", "SLIDER", "COMBO", "SPECIAL"}

\* the advanced preferences of the game config: a SPECIAL option is told
\* apart by its field, the others by their type and description only
AdvancedOptions ==
    [type : OptionTypes \ {"SPECIAL"}, description : {"", "d"}, field : {"f"}]
    \cup [type : {"SPECIAL"}, description : {"", "d"},
          field : {"logging", "orb_color", "f"}]

\* the visibility of "value_toggle" after the row of an option was built
toggle_visibility(option) ==
    IF option.type = "TOGGLE" THEN "visible" ELSE "hidden"

\* mutant of setter_grid_shown: only SPECIAL options are kept from expanding
setter_grid_shown_for_toggle(pref) ==
    LET has_description == pref.description # ""
    IN  has_description \/ pref.type # "SPECIAL"

\* whether the selection of the row of pref makes its prefs_setter_grid visible
setter_grid_shown(pref) ==
    LET has_description == pref.description # ""
    IN  has_description \/ (pref.type # "SPECIAL" /\ pref.type # "TOGGLE")

\* the dialog a SPECIAL option opens when its row is selected
special_dialog(pref) ==
    IF pref.type # "SPECIAL" THEN ""
    ELSE IF pref.field = "logging" THEN "log_settings"
    ELSE IF pref.field = "orb_color" THEN "select_orb_colors"
    ELSE "WRN_GUI_L"

\* on_advanced_prefs_list_select: the grids and last_selected_item_ after it,
\* for rows numbered from 0
grids_after_select(grids, last, selected_row) ==
    LET pref == adv_preferences_[selected_row + 1]
        shown == IF setter_grid_shown(pref)
                 THEN [grids EXCEPT ![selected_row + 1] = "visible"]
                 ELSE grids
    IN  IF last # selected_row
        THEN [shown EXCEPT ![last + 1] = "invisible"]
        ELSE shown

RowInit ==
    /\ adv_preferences_ \in
          UNION { [1..n -> AdvancedOptions] : n \in 1..MaxRows }
    /\ value_toggle = <<>>
    /\ prefs_setter_grid = <<>>
    /\ advanced_selected = -1
    /\ last_selected_item_ = 0
    /\ opened_dialog = ""
    /\ row_last = "preferences_dialog"

\* initialize_callbacks, advanced panel: one row per option, the first of
\* them selected, then on_advanced_prefs_list_select
initialize_advanced ==
    /\ row_last = "preferences_dialog"
    /\ value_toggle' = [i \in 1..Len(adv_preferences_) |->
                            toggle_visibility(adv_preferences_[i])]
    /\ advanced_selected' = 0
    /\ prefs_setter_grid' =
          grids_after_select([i \in 1..Len(adv_preferences_) |-> "invisible"],
                             last_selected_item_, 0)
    /\ last_selected_item_' = 0
    /\ opened_dialog' = special_dialog(adv_preferences_[1])
    /\ row_last' = "initialize_callbacks"
    /\ UNCHANGED adv_preferences_
    /\ UNCHANGED notRow

\* the user selects another row of the list
on_advanced_prefs_list_select ==
    /\ row_last # "preferences_dialog"
    /\ \E selected_row \in 0..(Len(adv_preferences_) - 1) :
          /\ selected_row # advanced_selected
          /\ advanced_selected' = selected_row
          /\ prefs_setter_grid' =
                grids_after_select(prefs_setter_grid, last_selected_item_, selected_row)
          /\ last_selected_item_' = selected_row
          /\ opened_dialog' = special_dialog(adv_preferences_[selected_row + 1])
    /\ row_last' = "on_advanced_prefs_list_select"
    /\ UNCHANGED <<adv_preferences_, value_toggle>>
    /\ UNCHANGED notRow

RowNext == initialize_advanced \/ on_advanced_prefs_list_select

RowIdle ==
    /\ adv_preferences_ = <<>>
    /\ value_toggle = <<>>
    /\ prefs_setter_grid = <<>>
    /\ advanced_selected = -1
    /\ last_selected_item_ = 0
    /\ opened_dialog = ""
    /\ row_last = "idle"

(* ---- the claim about the rows of the advanced panel ---- *)

\* C17: once the rows are built, the value_toggle of a row is visible for a
\* TOGGLE option and hidden for a SLIDER, COMBO or SPECIAL option; the
\* prefs_setter_grid of the selected row is visible if and only if its option
\* has a description or is a SLIDER or a COMBO; the grid of a TOGGLE or
\* SPECIAL option without description is never visible
C17_Rendering ==
    row_last # "preferences_dialog" /\ row_last # "idle" =>
        /\ \A i \in 1..Len(adv_preferences_) :
              /\ adv_preferences_[i].type = "TOGGLE" => value_toggle[i] = "visible"
              /\ adv_preferences_[i].type \in {"SLIDER", "COMBO", "SPECIAL"}
                    => value_toggle[i] = "hidden"
              /\ (adv_preferences_[i].type \in {"TOGGLE", "SPECIAL"}
                    /\ adv_preferences_[i].description = "")
                    => prefs_setter_grid[i] # "visible"
        /\ LET pref == adv_preferences_[advanced_selected + 1]
           IN  prefs_setter_grid[advanced_selected + 1] = "visible"
                  <=> (pref.description # "" \/ pref.type \in {"SLIDER", "COMBO"})

\* the second row, a TOGGLE without description, is selected after the first,
\* a COMBO without description, was expanded and collapsed again
C17_Witness ==
    /\ row_last = "on_advanced_prefs_list_select"
    /\ Len(adv_preferences_) = 2
    /\ adv_preferences_[1].type = "COMBO" /\ adv_preferences_[1].description = ""
    /\ adv_preferences_[2].type = "TOGGLE" /\ adv_preferences_[2].description = ""
    /\ advanced_selected = 1
    /\ prefs_setter_grid = <<"invisible", "invisible">>
    /\ value_toggle = <<"hidden", "visible">>

-----------------------------------------------------------------------------
(* Hotkeys panel: the bindings, add_hotkey_callback, remove_hotkey_callback
   and default_hotkey_callback.  A command is named by its place in
   hotkey_commands; a binding is its keys, its command and two flags *)

\* the id of the command "null", which no row stands for
null_command == 0

\* the key sequences the bind dialog can return
Keys == {"F1", "F2"}

\* the registries of this part: the commands are hidden or not
BindingRegistries ==
    { cmds \in Registries :
        \A i \in 1..Len(cmds) : cmds[i].category = (IF i = 2 THEN 2 ELSE 1) }

\* the texts of the filter box in this part: empty, or a text no description has
HotkeyFilterTexts == {<<>>, <<"z">>}

\* the sorting options of list_hotkeys a user can select
SortingOptions == [column : 0..4, order : {"ascending", "descending"}]

\* the bindings after hotkey::reset_default_hotkeys()
DefaultHotkeys ==
    <<[keys |-> "F1", command |-> 1, is_default |-> TRUE, is_disabled |-> FALSE]>>

\* hotkey_base::bindings_equal
bindings_equal(a, b) == a.keys = b.keys

\* hotkey::get_names(id): the names of the enabled bindings of the command
RECURSIVE NamesFrom(_, _, _)
NamesFrom(bindings, id, i) ==
    IF i > Len(bindings) THEN <<>>
    ELSE (IF /\ bindings[i].command = id
             /\ bindings[i].command # null_command
             /\ ~bindings[i].is_disabled
          THEN <<bindings[i].keys>> ELSE <<>>)
         \o NamesFrom(bindings, id, i + 1)

RECURSIVE Join(_, _)
Join(names, sep) ==
    IF Len(names) = 0 THEN <<>>
    ELSE IF Len(names) = 1 THEN <<names[1]>>
    ELSE <<names[1], sep>> \o Join(Tail(names), sep)

get_names(bindings, id) == Join(NamesFrom(bindings, id, 1), ", ")

\* hotkey::add_hotkey(item): the bindings equal to item are erased, then item
\* is pushed to the back
add_hotkey(bindings, item) ==
    Append(SelectSeq(bindings, LAMBDA hk : ~bindings_equal(hk, item)), item)

\* hotkey::clear_hotkeys(command): a default binding of the command is
\* disabled, another one is handed to the command "null"
clear_hotkeys(bindings, command) ==
    [i \in 1..Len(bindings) |->
        IF bindings[i].command # command THEN bindings[i]
        ELSE IF bindings[i].is_default
        THEN [bindings[i] EXCEPT !.is_disabled = TRUE]
        ELSE [bindings[i] EXCEPT !.command = null_command]]

\* get_new_binding() of the bind dialog opened for the command id
new_binding(id, keys) ==
    [keys |-> keys, command |-> id, is_default |-> FALSE, is_disabled |-> FALSE]

\* oldhk after the loop over hotkey::get_hotkeys(): the last enabled binding
\* equal to newhk, <<>> when there is none
RECURSIVE oldhk_from(_, _, _, _)
oldhk_from(bindings, newhk, i, oldhk) ==
    IF i > Len(bindings) THEN oldhk
    ELSE oldhk_from(bindings, newhk, i + 1,
                    IF ~bindings[i].is_disabled /\ bindings_equal(newhk, bindings[i])
                    THEN <<bindings[i]>> ELSE oldhk)

\* the labels of all rows, as setup_hotkey_list and add_hotkey_callback set them
row_labels(bindings, visible) ==
    [i \in 1..Len(visible) |-> get_names(bindings, visible[i])]

\* mutant of labels_after_add: only the label of the selected row is set
labels_after_add_selected_only(labels, bindings, visible, row_number) ==
    [labels EXCEPT ![row_number + 1] = get_names(bindings, visible[row_number + 1])]

\* the labels after add_hotkey_callback add_hotkey_called a binding: all are recalculated
labels_after_add(labels, bindings, visible, row_number) ==
    row_labels(bindings, visible)

\* mutant of reassign_confirmed: every answer reassigns
reassign_confirmed_always(answer) == TRUE

\* whether the answer to "Reassign Hotkey" lets the callback go on
reassign_confirmed(answer) == answer = "OK"

\* mutant of selection_message: no message
selection_message_silent(row_number) == ""

\* the message of a callback that finds no selected row
selection_message(row_number) ==
    IF row_number < 0 THEN "No hotkey selected" ELSE ""

\* mutant of filter_ops: the menu keeps the states it had
filter_ops_kept(cats) == toggle_states

\* the values setup_hotkey_list gives hotkey_category_menu: one unchecked
\* entry per visible category
filter_ops(cats) == [i \in 1..Cardinality(cats) |-> FALSE]

\* listbox::set_row_shown, row by row: a row that changes to hidden while
\* selected hands the selection to the next shown row, a row that changes to
\* shown while nothing is selected takes it
NextShown(shown, i) ==
    LET n == Len(shown)
        steps == { k \in 1..(n - 1) : shown[((i - 1 + k) % n) + 1] }
    IN  IF steps = {} THEN -1
        ELSE LET k == CHOOSE k \in steps : \A j \in steps : k <= j
             IN  (i - 1 + k) % n

RECURSIVE set_row_shown(_, _, _, _)
set_row_shown(selected, shown, target, i) ==
    IF i > Len(target) THEN selected
    ELSE IF shown[i] = target[i] THEN set_row_shown(selected, shown, target, i + 1)
    ELSE LET now == [shown EXCEPT ![i] = target[i]]
             sel == IF target[i] /\ selected = -1 THEN i - 1
                    ELSE IF ~target[i] /\ selected = i - 1 THEN NextShown(now, i)
                    ELSE selected
         IN  set_row_shown(sel, now, target, i + 1)

\* the state after initialize_callbacks set up the hotkeys panel
BndInit ==
    /\ hotkey_commands \in BindingRegistries
    /\ visible_hotkeys_ = VisibleFrom(hotkey_commands, 1)
    /\ visible_categories_ = VisibleCategories(hotkey_commands)
    /\ toggle_states = [i \in 1..Cardinality(VisibleCategories(hotkey_commands)) |-> FALSE]
    /\ filter = <<>>
    /\ row_shown = [h \in 1..Len(VisibleFrom(hotkey_commands, 1)) |-> TRUE]
    /\ hk_last = "setup_hotkey_list"
    /\ hotkeys_ = DefaultHotkeys
    /\ lbl_hotkey = row_labels(DefaultHotkeys, VisibleFrom(hotkey_commands, 1))
    /\ hotkeys_selected = (IF Len(VisibleFrom(hotkey_commands, 1)) = 0 THEN -1 ELSE 0)
    /\ active_sorting = [column |-> 0, order |-> "ascending"]
    /\ bind_dlg = "not shown"
    /\ reassign = ""
    /\ add_hotkey_called = FALSE
    /\ hotkey_item = -1
    /\ hk_message = ""
    /\ bnd_last = "setup_hotkey_list"

\* what a handler that opens no dialog leaves of the last one
NoDialogs ==
    /\ bind_dlg' = "not shown"
    /\ reassign' = ""
    /\ add_hotkey_called' = FALSE

\* the user selects a shown row of list_hotkeys
select_hotkey_row ==
    /\ \E r \in 0..(Len(visible_hotkeys_) - 1) :
          /\ row_shown[r + 1]
          /\ r # hotkeys_selected
          /\ hotkeys_selected' = r
    /\ NoDialogs
    /\ hotkey_item' = -1
    /\ hk_message' = ""
    /\ bnd_last' = "select_row"
    /\ UNCHANGED <<hotkeys_, lbl_hotkey, active_sorting>>
    /\ UNCHANGED hkVars
    /\ UNCHANGED notHotkeys

\* the user clicks a column header of list_hotkeys
sort_hotkey_list ==
    /\ \E option \in SortingOptions :
          /\ option # active_sorting
          /\ active_sorting' = option
    /\ NoDialogs
    /\ hotkey_item' = -1
    /\ hk_message' = ""
    /\ bnd_last' = "set_active_sorting_option"
    /\ UNCHANGED <<hotkeys_, lbl_hotkey, hotkeys_selected>>
    /\ UNCHANGED hkVars
    /\ UNCHANGED notHotkeys

\* the text of the filter box changes: hotkey_filter_callback, and the list
\* moves its selection off the rows that are hidden
hotkey_filter_text_changed ==
    /\ \E text \in HotkeyFilterTexts :
          /\ text # filter
          /\ filter' = text
    /\ hotkey_filter_callback(toggle_states, filter')
    /\ hotkeys_selected' = set_row_shown(hotkeys_selected, row_shown, row_shown', 1)
    /\ NoDialogs
    /\ hotkey_item' = -1
    /\ hk_message' = ""
    /\ bnd_last' = "hotkey_filter_callback"
    /\ UNCHANGED <<hotkey_commands, visible_hotkeys_, visible_categories_, toggle_states>>
    /\ UNCHANGED <<hotkeys_, lbl_hotkey, active_sorting>>
    /\ UNCHANGED notHotkeys

\* an entry of hotkey_category_menu is toggled: hotkey_filter_callback
hotkey_category_toggled ==
    /\ \E i \in 1..Len(toggle_states) :
          toggle_states' = [toggle_states EXCEPT ![i] = ~toggle_states[i]]
    /\ hotkey_filter_callback(toggle_states', filter)
    /\ hotkeys_selected' = set_row_shown(hotkeys_selected, row_shown, row_shown', 1)
    /\ NoDialogs
    /\ hotkey_item' = -1
    /\ hk_message' = ""
    /\ bnd_last' = "hotkey_filter_callback"
    /\ UNCHANGED <<hotkey_commands, visible_hotkeys_, visible_categories_, filter>>
    /\ UNCHANGED <<hotkeys_, lbl_hotkey, active_sorting>>
    /\ UNCHANGED notHotkeys

\* add_hotkey_callback; binding is what the user does in the bind dialog and
\* answer the answer to "Reassign Hotkey", when the question is asked
add_hotkey_callback ==
    /\ LET row_number == hotkeys_selected
       IN  IF row_number < 0
           THEN /\ hk_message' = selection_message(row_number)
                /\ NoDialogs
                /\ hotkey_item' = -1
                /\ UNCHANGED <<hotkeys_, lbl_hotkey>>
           ELSE \E binding \in Keys \cup {"cancelled"}, answer \in {"OK", "CANCEL"} :
                LET id == visible_hotkeys_[row_number + 1]
                    newhk == new_binding(id, binding)
                    oldhk == oldhk_from(hotkeys_, newhk, 1, <<>>)
                    asked == /\ binding # "cancelled"
                             /\ oldhk # <<>>
                             /\ oldhk[1].command # id
                             /\ oldhk[1].command # null_command
                    goes_on == /\ binding # "cancelled"
                               /\ ~(oldhk # <<>> /\ oldhk[1].command = id)
                               /\ (asked => reassign_confirmed(answer))
                IN  /\ hk_message' = ""
                    /\ hotkey_item' = id
                    /\ bind_dlg' = binding
                    /\ reassign' = (IF asked THEN answer ELSE "")
                    /\ add_hotkey_called' = goes_on
                    /\ hotkeys_' = (IF goes_on THEN add_hotkey(hotkeys_, newhk) ELSE hotkeys_)
                    /\ lbl_hotkey' = (IF goes_on
                                      THEN labels_after_add(lbl_hotkey, hotkeys_',
                                                            visible_hotkeys_, row_number)
                                      ELSE lbl_hotkey)
    /\ bnd_last' = "add_hotkey_callback"
    /\ UNCHANGED <<hotkeys_selected, active_sorting>>
    /\ UNCHANGED hkVars
    /\ UNCHANGED notHotkeys

\* remove_hotkey_callback
remove_hotkey_callback ==
    /\ LET row_number == hotkeys_selected
       IN  IF row_number < 0
           THEN /\ hk_message' = selection_message(row_number)
                /\ hotkey_item' = -1
                /\ UNCHANGED <<hotkeys_, lbl_hotkey>>
           ELSE LET id == visible_hotkeys_[row_number + 1]
                IN  /\ hk_message' = ""
                    /\ hotkey_item' = id
                    /\ hotkeys_' = clear_hotkeys(hotkeys_, id)
                    /\ lbl_hotkey' = [lbl_hotkey EXCEPT
                                         ![row_number + 1] = get_names(hotkeys_', id)]
    /\ NoDialogs
    /\ bnd_last' = "remove_hotkey_callback"
    /\ UNCHANGED <<hotkeys_selected, active_sorting>>
    /\ UNCHANGED hkVars
    /\ UNCHANGED notHotkeys

\* default_hotkey_callback: the bindings are reset, setup_hotkey_list builds
\* the list and the category menu again, and the default sorting is selected
default_hotkey_callback ==
    /\ hk_message' = "Hotkeys Reset"
    /\ hotkeys_' = DefaultHotkeys
    /\ visible_hotkeys_' = VisibleFrom(hotkey_commands, 1)
    /\ visible_categories_' = VisibleCategories(hotkey_commands)
    /\ row_shown' = [h \in 1..Len(visible_hotkeys_') |-> TRUE]
    /\ lbl_hotkey' = row_labels(hotkeys_', visible_hotkeys_')
    /\ hotkeys_selected' = (IF Len(visible_hotkeys_') = 0 THEN -1 ELSE 0)
    /\ toggle_states' = filter_ops(visible_categories_')
    /\ active_sorting' = [column |-> 0, order |-> "ascending"]
    /\ NoDialogs
    /\ hotkey_item' = -1
    /\ hk_last' = "setup_hotkey_list"
    /\ bnd_last' = "default_hotkey_callback"
    /\ UNCHANGED <<hotkey_commands, filter>>
    /\ UNCHANGED notHotkeys

BndNext ==
    \/ select_hotkey_row
    \/ sort_hotkey_list
    \/ hotkey_filter_text_changed
    \/ hotkey_category_toggled
    \/ add_hotkey_callback
    \/ remove_hotkey_callback
    \/ default_hotkey_callback

BndIdle ==
    /\ hotkeys_ = <<>>
    /\ lbl_hotkey = <<>>
    /\ hotkeys_selected = -1
    /\ active_sorting = <<>>
    /\ bind_dlg = "not shown"
    /\ reassign = ""
    /\ add_hotkey_called = FALSE
    /\ hotkey_item = -1
    /\ hk_message = ""
    /\ bnd_last = "idle"

(* ---- the claims about the bindings ---- *)

\* the enabled bindings with the given keys
EnabledWith(keys) ==
    { i \in 1..Len(hotkeys_) : ~hotkeys_[i].is_disabled /\ hotkeys_[i].keys = keys }

\* the keys a label shows
KeysShown(label) == { label[j] : j \in 1..Len(label) } \ {", "}

\* the commands that are not hidden
NotHidden == { i \in 1..Len(hotkey_commands) : ~hotkey_commands[i].hidden }

\* C13: when add_hotkey_callback runs with a row selected, hotkey::add_hotkey
\* is called if and only if the bind dialog returned a binding, its keys are
\* not an enabled binding of the selected command already, and either no
\* enabled binding with these keys belongs to a command other than "null" or
\* the user answered OK to "Reassign Hotkey"; when it is called the new
\* binding is the last of the bindings, and when it is not called the bindings
\* and the labels of all rows are unchanged
C13_AddHotkey ==
    [][ (bnd_last' = "add_hotkey_callback" /\ hotkeys_selected >= 0) =>
          LET id == visible_hotkeys_[hotkeys_selected + 1]
              returned == bind_dlg' \in Keys
              own == \E i \in EnabledWith(bind_dlg') : hotkeys_[i].command = id
              foreign == \E i \in EnabledWith(bind_dlg') :
                             hotkeys_[i].command # null_command
          IN  /\ add_hotkey_called' <=>
                    (returned /\ ~own /\ (~foreign \/ reassign' = "OK"))
              /\ add_hotkey_called' =>
                    /\ hotkeys_'[Len(hotkeys_')].keys = bind_dlg'
                    /\ hotkeys_'[Len(hotkeys_')].command = id
              /\ ~add_hotkey_called' => UNCHANGED <<hotkeys_, lbl_hotkey>>
      ]_vars

\* F1, the default binding of the first command, was given to another command
\* after the user answered OK
C13_Witness ==
    /\ bnd_last = "add_hotkey_callback"
    /\ bind_dlg = "F1" /\ reassign = "OK" /\ add_hotkey_called
    /\ hotkey_item # 1
    /\ hotkeys_[Len(hotkeys_)].command = hotkey_item

\* C14: the label of every row is hotkey::get_names of the row's command for
\* the current bindings; the keys a row shows are the keys of the enabled
\* bindings of its command, so a binding that was reassigned is not shown on
\* the row of the command it was taken from
C14_Labels ==
    bnd_last # "idle" =>
        /\ Len(lbl_hotkey) = Len(visible_hotkeys_)
        /\ \A i \in 1..Len(visible_hotkeys_) :
              /\ lbl_hotkey[i] = get_names(hotkeys_, visible_hotkeys_[i])
              /\ KeysShown(lbl_hotkey[i]) =
                    { hotkeys_[b].keys : b \in { b \in 1..Len(hotkeys_) :
                          /\ hotkeys_[b].command = visible_hotkeys_[i]
                          /\ ~hotkeys_[b].is_disabled } }

\* F1 was reassigned from the first command, whose row is the first and is
\* not the selected one: its label is empty now
C14_Witness ==
    /\ bnd_last = "add_hotkey_callback"
    /\ bind_dlg = "F1" /\ reassign = "OK"
    /\ Len(visible_hotkeys_) >= 2
    /\ visible_hotkeys_[1] = 1
    /\ hotkeys_selected # 0
    /\ lbl_hotkey[1] = <<>>
    /\ lbl_hotkey[hotkeys_selected + 1] = <<"F1">>

\* C15: when no row is selected, add_hotkey_callback and remove_hotkey_callback
\* show "No hotkey selected", open no bind dialog, read nothing from
\* visible_hotkeys_ and leave the bindings and the labels as they are
C15_NoSelection ==
    [][ (bnd_last' \in {"add_hotkey_callback", "remove_hotkey_callback"}
            /\ hotkeys_selected < 0) =>
          /\ hk_message' = "No hotkey selected"
          /\ bind_dlg' = "not shown"
          /\ hotkey_item' = -1
          /\ ~add_hotkey_called'
          /\ UNCHANGED <<hotkeys_, lbl_hotkey>>
      ]_vars

\* the list has rows, the filter text hides them all, and a button is clicked
C15_Witness ==
    /\ bnd_last \in {"add_hotkey_callback", "remove_hotkey_callback"}
    /\ Len(visible_hotkeys_) > 0
    /\ filter = <<"z">>
    /\ hotkeys_selected = -1
    /\ hk_message = "No hotkey selected"

\* C16: after default_hotkey_callback the bindings are the defaults, the list
\* has one row per command that is not hidden, visible_hotkeys_ and
\* visible_categories_ are these commands and their categories, the category
\* menu has one unchecked entry per visible category, and the active sorting
\* option is column 0, ascending
C16_Defaults ==
    bnd_last = "default_hotkey_callback" =>
        /\ hotkeys_ = DefaultHotkeys
        /\ Len(lbl_hotkey) = Cardinality(NotHidden)
        /\ Len(row_shown) = Cardinality(NotHidden)
        /\ Len(visible_hotkeys_) = Cardinality(NotHidden)
        /\ { visible_hotkeys_[i] : i \in 1..Len(visible_hotkeys_) } = NotHidden
        /\ \A i, j \in 1..Len(visible_hotkeys_) :
              i < j => visible_hotkeys_[i] < visible_hotkeys_[j]
        /\ visible_categories_ = { hotkey_commands[i].category : i \in NotHidden }
        /\ Len(toggle_states) = Cardinality(visible_categories_)
        /\ \A i \in 1..Len(toggle_states) : ~toggle_states[i]
        /\ active_sorting.column = 0 /\ active_sorting.order = "ascending"

\* the reset came while the filter text hid every row and nothing was
\* selected: the three rows are back and the first is selected
C16_Witness ==
    /\ bnd_last = "default_hotkey_callback"
    /\ filter = <<"z">>
    /\ Len(visible_hotkeys_) = 3
    /\ Cardinality(visible_categories_) = 2
    /\ hotkeys_selected = 0
    /\ hk_message = "Hotkeys Reset"

-----------------------------------------------------------------------------
(* Unit preview pane: set_displayed_type and set_displayed_unit.  A widget is
   a record: whether finalize_setup found it, its label and its tooltip; a
   node of the tree is its type, its label, its tooltip and its children *)

\* the widgets finalize_setup looks for; none of them has to exist
PaneWidgets ==
    {"type_image", "type_race", "type_alignment", "type_name", "type_level",
     "type_race_label", "type_details_minimal", "type_details"}

\* the texts set_image_mods can have given the pane
ImageMods == {"", "~GS()"}

\* the colours of the current side, "" when no game is played
SideColors == {"", "red"}

\* font::span_color(color)
span_color(color) == <<"<span color='", color, "'>">>

\* VGETTEXT("Lvl $lvl", {{"lvl", std::to_string(level)}})
level_text(level) == <<"Lvl ", ToString(level)>>

\* utils::join(names, ", ")
join_names(names) == Join(names, ", ")

\* the images ::image::locator finds
ExistingImages ==
    {"icons/profiles/melee_attack.png~SCALE_INTO(16,16)",
     "icons/profiles/pierce.png~SCALE_INTO(16,16)"}

\* the attacks of the modelled unit types and units
attack_spear ==
    [name |-> "spear", range |-> "melee", type |-> "pierce", damage |-> 7,
     num_attacks |-> 3, special_tooltips |-> << <<"first strike", "strikes first">> >>]

attack_wail ==
    [name |-> "wail", range |-> "ranged", type |-> "cold", damage |-> 3,
     num_attacks |-> 2, special_tooltips |-> <<>>]

\* the unit types a caller can display
type_spearman ==
    [id |-> "Spearman", type_name |-> "Spearman", icon |-> "",
     image |-> "units/spearman.png", flag_rgb |-> "magenta", level |-> 1,
     race |-> [name |-> "Human", icon_path_stem |-> "icons/unit-groups/race_human"],
     gender |-> "male", alignment |-> "lawful", hitpoints |-> 36,
     experience_needed |-> 42, can_advance |-> TRUE, movement |-> 5,
     damage_table |-> <<"blade">>,
     resistance |-> [t \in DamageTypes |-> [a \in BOOLEAN |-> 100]],
     movement_cost |-> [t \in TerrainCodes |-> 2],
     possible_traits |-> <<>>,
     abilities_metadata |-> <<>>,
     attacks |-> <<attack_spear>>]

type_ghost ==
    [id |-> "Ghost", type_name |-> "Ghost", icon |-> "units/ghost-icon.png",
     image |-> "units/ghost.png", flag_rgb |-> "magenta", level |-> 2,
     race |-> [name |-> "Undead", icon_path_stem |-> "icons/unit-groups/race_undead"],
     gender |-> "female", alignment |-> "chaotic", hitpoints |-> 18,
     experience_needed |-> 30, can_advance |-> FALSE, movement |-> 7,
     damage_table |-> <<"arcane", "blade">>,
     resistance |-> [t \in DamageTypes |-> [a \in BOOLEAN |-> IF a THEN 130 ELSE 80]],
     movement_cost |-> [t \in TerrainCodes |-> 1],
     possible_traits |->
        <<[availability |-> "musthave", male_name |-> "undead", female_name |-> "undead"],
          [availability |-> "any", male_name |-> "quick", female_name |-> "quick"],
          [availability |-> "musthave", male_name |-> "feral", female_name |-> ""]>>,
     abilities_metadata |->
        <<[name |-> "drains", description |-> "heals by draining"],
          [name |-> "", description |-> "hidden"]>>,
     attacks |-> <<>>]

UnitTypes == {type_spearman, type_ghost}

\* the units a caller can display
unit_bob ==
    [type |-> type_spearman, name |-> "Bob", type_name |-> "Spearman",
     image_mods |-> "~RC(magenta>blue)", can_recruit |-> TRUE,
     overlays |-> <<"misc/hero-icon.png">>, absolute_image |-> "units/spearman.png",
     level |-> 1, race |-> type_spearman.race, gender |-> "male",
     alignment |-> "lawful", hitpoints |-> 30, max_hitpoints |-> 36,
     experience |-> 10, max_experience |-> 42, can_advance |-> TRUE,
     movement_left |-> 3, total_movement |-> 5,
     hp_color |-> "#00ff00", xp_color |-> "#00a0e1",
     base_resistances |-> <<"blade">>,
     resistance |-> [t \in DamageTypes |-> [a \in BOOLEAN |-> 80]],
     movement_cost |-> [t \in TerrainCodes |-> 2],
     trait_names |-> <<"strong", "quick">>,
     trait_descriptions |-> <<"more damage", "more movement">>,
     ability_list |-> <<>>,
     ability_tooltips |-> <<>>,
     attacks |-> <<attack_spear, attack_wail>>]

unit_ghost ==
    [type |-> type_ghost, name |-> "", type_name |-> "Ghost",
     image_mods |-> "", can_recruit |-> FALSE,
     overlays |-> <<>>, absolute_image |-> "units/ghost.png",
     level |-> 2, race |-> type_ghost.race, gender |-> "female",
     alignment |-> "chaotic", hitpoints |-> 18, max_hitpoints |-> 18,
     experience |-> 0, max_experience |-> 30, can_advance |-> FALSE,
     movement_left |-> 7, total_movement |-> 7,
     hp_color |-> "#00ff00", xp_color |-> "#a050ff",
     base_resistances |-> <<"arcane", "blade">>,
     resistance |-> [t \in DamageTypes |-> [a \in BOOLEAN |-> IF a THEN 130 ELSE 80]],
     movement_cost |-> [t \in TerrainCodes |-> 1],
     trait_names |-> <<>>,
     trait_descriptions |-> <<>>,
     ability_list |-> <<"drains">>,
     ability_tooltips |-> << <<"drains", "heals by draining">> >>,
     attacks |-> <<>>]

Units == {unit_bob, unit_ghost}

\* unit_helper::unit_level_tooltip
unit_level_tooltip(level, id) == <<"unit_level_tooltip:", ToString(level), id>>

\* unit_type::alignment_description(alignment, gender)
alignment_description(alignment, gender) ==
    <<"alignment_description:", alignment, gender>>

\* the tooltip of the "xp" label
experience_modifier == <<"Experience Modifier: ", "unit_experience_accelerator", "%">>

\* the terrains preferences::encountered_terrains() has when the pane is used
PaneTerrains == {"Ff", "Gg", "_f"}

\* add_name_tree_node and tree_view_node::add_child: a node
tree_node(type, label, tooltip, children) ==
    [type |-> type, label |-> label, tooltip |-> tooltip, children |-> children]

\* widget->set_label(label) behind if(widget)
set_label(widget, label) ==
    IF widget.exists THEN [widget EXCEPT !.label = label] ELSE widget

\* widget->set_label(label); widget->set_tooltip(tooltip) behind if(widget)
set_label_and_tooltip(widget, label, tooltip) ==
    IF widget.exists THEN [widget EXCEPT !.label = label, !.tooltip = tooltip]
    ELSE widget

\* mutant of tree_clear: the nodes stay
tree_clear_nothing(nodes) == nodes

\* tree_details_->clear()
tree_clear(nodes) == <<>>

\* one attack of print_attack_details
attack_node(a) ==
    LET range_png == "icons/profiles/" \o a.range \o "_attack.png~SCALE_INTO(16,16)"
        type_png == "icons/profiles/" \o a.type \o ".png~SCALE_INTO(16,16)"
        range == "range_" \o a.range
        type == "type_" \o a.type
        label == span_color("unit_type_color")
                 \o <<ToString(a.damage), "weapon_numbers_sep", ToString(a.num_attacks),
                      " ", a.name, "</span>">>
        details == IF range_png \notin ExistingImages \/ type_png \notin ExistingImages
                   THEN <<tree_node("item",
                                    span_color("weapon_details_color")
                                    \o <<range, "weapon_details_sep", type, "</span>">>,
                                    <<>>, <<>>)>>
                   ELSE <<>>
        specials == [i \in 1..Len(a.special_tooltips) |->
                        tree_node("item",
                                  span_color("weapon_details_color")
                                  \o <<a.special_tooltips[i][1], "</span>">>,
                                  <<"<span size='x-large'>", a.special_tooltips[i][1],
                                    "</span>", "\n", a.special_tooltips[i][2]>>,
                                  <<>>)]
    IN  [type |-> "item_image", label |-> <<range_png, type_png>> \o label,
         tooltip |-> <<range, type>>, children |-> details \o specials]

\* print_attack_details(attacks, root): the nodes it adds to the root
print_attack_details(attacks) ==
    IF Len(attacks) = 0 THEN <<>>
    ELSE <<tree_node("header", <<"<b>", "Attacks", "</b>">>, <<>>,
                     [i \in 1..Len(attacks) |-> attack_node(attacks[i])])>>

\* the nodes set_displayed_type adds after the clear
type_nodes(type) ==
    LET hp_xp_mp ==
            tree_node("hp_xp_mp",
                <<"<small>">> \o span_color("hp_color_max")
                    \o <<"<b>", "HP: ", "</b>", ToString(type.hitpoints), "</span>", " | </small>">>
                \o <<"<small>">> \o span_color(IF type.can_advance THEN "xp_color" ELSE "xp_color_max")
                    \o <<"<b>", "XP: ", "</b>", ToString(type.experience_needed), "</span>", " | </small>">>
                \o <<"<small>", "<b>", "MP: ", "</b>", ToString(type.movement), "</small>">>,
                get_hp_tooltip(type.damage_table, type.resistance)
                \o experience_modifier
                \o get_mp_tooltip(type.movement, type.movement_cost, PaneTerrains, TRUE),
                <<>>)
        name(tr) == IF type.gender = "female" THEN tr.female_name ELSE tr.male_name
        musthave == SelectSeq(type.possible_traits,
                              LAMBDA tr : ~(tr.availability # "musthave" \/ name(tr) = ""))
        traits == IF Len(musthave) = 0 THEN <<>>
                  ELSE <<tree_node("header", <<"<b>", "Traits", "</b>">>, <<>>,
                            [i \in 1..Len(musthave) |->
                                tree_node("item", <<name(musthave[i])>>, <<>>, <<>>)])>>
        named == SelectSeq(type.abilities_metadata, LAMBDA ab : ab.name # "")
        abilities ==
            IF Len(type.abilities_metadata) = 0 THEN <<>>
            ELSE <<tree_node("header", <<"<b>", "Abilities", "</b>">>, <<>>,
                      [i \in 1..Len(named) |->
                          tree_node("item", <<named[i].name>>,
                                    <<"<span size='x-large'>", named[i].name, "</span>\n",
                                      named[i].description>>,
                                    <<>>)])>>
    IN  <<hp_xp_mp>> \o traits \o abilities \o print_attack_details(type.attacks)

\* the nodes set_displayed_unit adds after the clear
unit_nodes(u) ==
    LET unit_xp == IF u.can_advance
                   THEN <<ToString(u.experience), "/", ToString(u.max_experience)>>
                   ELSE <<"unicode_en_dash">>
        hp_xp_mp ==
            tree_node("hp_xp_mp",
                <<"<small>">> \o span_color(u.hp_color)
                    \o <<"<b>", "HP: ", "</b>", ToString(u.hitpoints), "/",
                         ToString(u.max_hitpoints), "</span>", " | </small>">>
                \o <<"<small>">> \o span_color(u.xp_color)
                    \o <<"<b>", "XP: ", "</b>">> \o unit_xp \o <<"</span>", " | </small>">>
                \o <<"<small>", "<b>", "MP: ", "</b>", ToString(u.movement_left), "/",
                     ToString(u.total_movement), "</small>">>,
                get_hp_tooltip(u.base_resistances, u.resistance)
                \o experience_modifier
                \o get_mp_tooltip(u.total_movement, u.movement_cost, PaneTerrains, TRUE),
                <<>>)
        traits == IF Len(u.trait_names) = 0 THEN <<>>
                  ELSE <<tree_node("header", <<"<b>", "Traits", "</b>">>, <<>>,
                            [i \in 1..Len(u.trait_names) |->
                                tree_node("item", <<u.trait_names[i]>>,
                                          <<u.trait_descriptions[i]>>, <<>>)])>>
        abilities ==
            IF Len(u.ability_list) = 0 THEN <<>>
            ELSE <<tree_node("header", <<"<b>", "Abilities", "</b>">>, <<>>,
                      [i \in 1..Len(u.ability_tooltips) |->
                          tree_node("item", <<u.ability_tooltips[i][1]>>,
                                    <<u.ability_tooltips[i][2]>>, <<>>)])>>
    IN  <<hp_xp_mp>> \o traits \o abilities \o print_attack_details(u.attacks)

\* set_displayed_type(type) on a pane: the pane after it
displayed_type(pane, type, mods_, side) ==
    LET mods == (IF side # "" THEN <<"~RC(", type.flag_rgb, ">", side, ")">> ELSE <<>>)
                \o <<mods_>>
        alignment_name == type.alignment
    IN  [current_type_ |-> type.id,
         icon_type_ |-> set_label(pane.icon_type_,
                           <<IF type.icon = "" THEN type.image ELSE type.icon>> \o mods),
         label_name_ |-> set_label(pane.label_name_, <<"<big>", type.type_name, "</big>">>),
         label_level_ |-> set_label_and_tooltip(pane.label_level_,
                           <<"<b>">> \o level_text(type.level) \o <<"</b>">>,
                           unit_level_tooltip(type.level, type.id)),
         label_race_ |-> set_label(pane.label_race_, <<type.race.name, type.gender>>),
         icon_race_ |-> set_label(pane.icon_race_, <<type.race.icon_path_stem, "_30.png">>),
         icon_alignment_ |-> set_label_and_tooltip(pane.icon_alignment_,
                           <<"icons/alignments/alignment_", alignment_name, "_30.png">>,
                           alignment_description(type.alignment, type.gender)),
         label_details_ |-> set_label(pane.label_details_,
                           <<"<span size='large'> </span>", "\n">>
                           \o span_color("unit_type_color") \o <<type.type_name, "</span>", "\n">>
                           \o level_text(type.level) \o <<"\n">>
                           \o <<alignment_name, "\n">>
                           \o <<"\n">>
                           \o <<"HP: ", ToString(type.hitpoints), "\n">>
                           \o <<"XP: ", ToString(type.experience_needed)>>),
         tree_details_ |-> IF pane.tree_details_.exists
                           THEN [pane.tree_details_ EXCEPT
                                    !.nodes = tree_clear(@) \o type_nodes(type)]
                           ELSE pane.tree_details_]

\* set_displayed_unit(u) on a pane: the pane after it
displayed_unit(pane, u, mods_, side) ==
    LET crown == IF u.can_recruit THEN <<"~BLIT(", "leader_crown", ")">> ELSE <<>>
        overlay(i) == <<"~BLIT(", u.overlays[i], ")">>
        overlays == IF Len(u.overlays) = 0 THEN <<>>
                    ELSE IF Len(u.overlays) = 1 THEN overlay(1)
                    ELSE overlay(1) \o overlay(2)
        mods == <<u.image_mods>> \o crown \o overlays \o <<mods_>>
        name == IF u.name # ""
                THEN <<"<span size='large'>", u.name, "</span>", "\n", "<small>">>
                     \o span_color("unit_type_color") \o <<u.type_name, "</span></small>">>
                ELSE <<"<span size='large'>", u.type_name, "</span>\n">>
        alignment_name == u.alignment
    IN  [current_type_ |-> u.type.id,
         icon_type_ |-> set_label(pane.icon_type_, <<u.absolute_image>> \o mods),
         label_name_ |-> set_label(pane.label_name_, name),
         label_level_ |-> set_label_and_tooltip(pane.label_level_,
                           <<"<b>">> \o level_text(u.level) \o <<"</b>">>,
                           unit_level_tooltip(u.level, u.type.id)),
         label_race_ |-> set_label(pane.label_race_, <<u.race.name, u.gender>>),
         icon_race_ |-> set_label(pane.icon_race_, <<u.race.icon_path_stem, "_30.png">>),
         icon_alignment_ |-> set_label_and_tooltip(pane.icon_alignment_,
                           <<"icons/alignments/alignment_", alignment_name, "_30.png">>,
                           alignment_description(u.alignment, u.gender)),
         label_details_ |-> set_label(pane.label_details_,
                           <<"<span size='large'>", IF u.name # "" THEN u.name ELSE " ",
                             "</span>", "\n">>
                           \o span_color("unit_type_color") \o <<u.type_name, "</span>", "\n">>
                           \o level_text(u.level) \o <<"\n">>
                           \o alignment_description(u.alignment, u.gender) \o <<"\n">>
                           \o join_names(u.trait_names) \o <<"\n">>
                           \o span_color(u.hp_color)
                           \o <<"HP: ", ToString(u.hitpoints), "/", ToString(u.max_hitpoints),
                                "</span>", "\n">>
                           \o span_color(u.xp_color) \o <<"XP: ">>
                           \o (IF u.can_advance
                               THEN <<ToString(u.experience), "/", ToString(u.max_experience)>>
                               ELSE <<"unicode_en_dash">>)
                           \o <<"</span>">>),
         tree_details_ |-> IF pane.tree_details_.exists
                           THEN [pane.tree_details_ EXCEPT
                                    !.nodes = tree_clear(@) \o unit_nodes(u)]
                           ELSE pane.tree_details_]

\* a widget finalize_setup looked for, before any setter was called
found_widget(exists) == [exists |-> exists, label |-> <<>>, tooltip |-> <<>>]

\* the pane after finalize_setup, given the widgets that exist
finalize_setup(widgets) ==
    [current_type_ |-> "",
     icon_type_ |-> found_widget("type_image" \in widgets),
     label_name_ |-> found_widget("type_name" \in widgets),
     label_level_ |-> found_widget("type_level" \in widgets),
     label_race_ |-> found_widget("type_race_label" \in widgets),
     icon_race_ |-> found_widget("type_race" \in widgets),
     icon_alignment_ |-> found_widget("type_alignment" \in widgets),
     label_details_ |-> found_widget("type_details_minimal" \in widgets),
     tree_details_ |-> [exists |-> "type_details" \in widgets, nodes |-> <<>>]]

\* the pane as the variables have it
ThePane ==
    [current_type_ |-> current_type_,
     icon_type_ |-> icon_type_,
     label_name_ |-> label_name_,
     label_level_ |-> label_level_,
     label_race_ |-> label_race_,
     icon_race_ |-> icon_race_,
     icon_alignment_ |-> icon_alignment_,
     label_details_ |-> label_details_,
     tree_details_ |-> tree_details_]

\* the variables take the pane
BecomesPane(pane) ==
    /\ current_type_' = pane.current_type_
    /\ icon_type_' = pane.icon_type_
    /\ label_name_' = pane.label_name_
    /\ label_level_' = pane.label_level_
    /\ label_race_' = pane.label_race_
    /\ icon_race_' = pane.icon_race_
    /\ icon_alignment_' = pane.icon_alignment_
    /\ label_details_' = pane.label_details_
    /\ tree_details_' = pane.tree_details_

PaneInit ==
    /\ image_mods_ \in ImageMods
    /\ controller \in SideColors
    /\ \E widgets \in SUBSET PaneWidgets :
          /\ current_type_ = finalize_setup(widgets).current_type_
          /\ icon_type_ = finalize_setup(widgets).icon_type_
          /\ label_name_ = finalize_setup(widgets).label_name_
          /\ label_level_ = finalize_setup(widgets).label_level_
          /\ label_race_ = finalize_setup(widgets).label_race_
          /\ icon_race_ = finalize_setup(widgets).icon_race_
          /\ icon_alignment_ = finalize_setup(widgets).icon_alignment_
          /\ label_details_ = finalize_setup(widgets).label_details_
          /\ tree_details_ = finalize_setup(widgets).tree_details_
    /\ pane_call = <<>>
    /\ pane_calls = 0

set_displayed_type ==
    /\ pane_calls < MaxCalls
    /\ \E type \in UnitTypes :
          /\ BecomesPane(displayed_type(ThePane, type, image_mods_, controller))
          /\ pane_call' = <<"set_displayed_type", type>>
    /\ pane_calls' = pane_calls + 1
    /\ UNCHANGED <<image_mods_, controller>>
    /\ UNCHANGED notPane

set_displayed_unit ==
    /\ pane_calls < MaxCalls
    /\ \E u \in Units :
          /\ BecomesPane(displayed_unit(ThePane, u, image_mods_, controller))
          /\ pane_call' = <<"set_displayed_unit", u>>
    /\ pane_calls' = pane_calls + 1
    /\ UNCHANGED <<image_mods_, controller>>
    /\ UNCHANGED notPane

PaneNext == set_displayed_type \/ set_displayed_unit

PaneIdle ==
    /\ image_mods_ = ""
    /\ controller = ""
    /\ current_type_ = ""
    /\ icon_type_ = <<>>
    /\ label_name_ = <<>>
    /\ label_level_ = <<>>
    /\ label_race_ = <<>>
    /\ icon_race_ = <<>>
    /\ icon_alignment_ = <<>>
    /\ label_details_ = <<>>
    /\ tree_details_ = <<>>
    /\ pane_call = <<>>
    /\ pane_calls = 0

(* ---- the claim about the re-rendering of the pane ---- *)

\* the widgets of a pane that exist
WidgetsOf(pane) ==
    { w \in PaneWidgets :
        \/ w = "type_image" /\ pane.icon_type_.exists
        \/ w = "type_name" /\ pane.label_name_.exists
        \/ w = "type_level" /\ pane.label_level_.exists
        \/ w = "type_race_label" /\ pane.label_race_.exists
        \/ w = "type_race" /\ pane.icon_race_.exists
        \/ w = "type_alignment" /\ pane.icon_alignment_.exists
        \/ w = "type_details_minimal" /\ pane.label_details_.exists
        \/ w = "type_details" /\ pane.tree_details_.exists }

\* what a call shows on a pane on which nothing was displayed before
ShownOnFreshPane(call, widgets, mods_, side) ==
    IF call[1] = "set_displayed_type"
    THEN displayed_type(finalize_setup(widgets), call[2], mods_, side)
    ELSE displayed_unit(finalize_setup(widgets), call[2], mods_, side)

\* how many nodes of the root have this type and this label
RootNodes(nodes, type, label) ==
    Cardinality({ i \in 1..Len(nodes) : nodes[i].type = type /\ nodes[i].label = label })

\* C12: after every call of set_displayed_type or set_displayed_unit the pane
\* shows what this call shows on a pane on which nothing was displayed before,
\* whatever the calls before it were: the tree has one hp_xp_mp node and at
\* most one header each for Traits, Abilities and Attacks, and a call that
\* repeats the last one leaves every label, icon and node as it is
C12_Rerender ==
    [][ pane_calls' > pane_calls =>
          /\ ThePane' = ShownOnFreshPane(pane_call', WidgetsOf(ThePane),
                                         image_mods_, controller)
          /\ tree_details_.exists =>
                /\ Cardinality({ i \in 1..Len(tree_details_'.nodes) :
                                    tree_details_'.nodes[i].type = "hp_xp_mp" }) = 1
                /\ \A title \in {"Traits", "Abilities", "Attacks"} :
                      RootNodes(tree_details_'.nodes, "header",
                                <<"<b>", title, "</b>">>) <= 1
          /\ pane_call' = pane_call => ThePane' = ThePane
      ]_vars

\* the second call displays the unit Bob after the type Ghost was displayed:
\* the tree has the four nodes of Bob, and none of the Ghost's abilities
C12_Witness ==
    /\ pane_calls = 2
    /\ pane_call = <<"set_displayed_unit", unit_bob>>
    /\ current_type_ = "Spearman"
    /\ tree_details_.exists /\ icon_type_.exists /\ label_name_.exists
    /\ Len(tree_details_.nodes) = 3
    /\ RootNodes(tree_details_.nodes, "header", <<"<b>", "Abilities", "</b>">>) = 0
    /\ RootNodes(tree_details_.nodes, "header", <<"<b>", "Traits", "</b>">>) = 1

-----------------------------------------------------------------------------
(* Specifications *)

InitFilter == HkInit /\ DlgIdle /\ FrIdle /\ AdvIdle /\ HpIdle /\ MpIdle /\ RowIdle /\ BndIdle /\ PaneIdle

SpecFilter == InitFilter /\ [][HkNext]_vars

InitDialog == DlgInit /\ HkIdle /\ FrIdle /\ AdvIdle /\ HpIdle /\ MpIdle /\ RowIdle /\ BndIdle /\ PaneIdle

SpecDialog == InitDialog /\ [][DlgNext]_vars

InitFriends == FrInit /\ HkIdle /\ DlgIdle /\ AdvIdle /\ HpIdle /\ MpIdle /\ RowIdle /\ BndIdle /\ PaneIdle

SpecFriends == InitFriends /\ [][FrNext]_vars

InitCombo == AdvInit /\ HkIdle /\ DlgIdle /\ FrIdle /\ HpIdle /\ MpIdle /\ RowIdle /\ BndIdle /\ PaneIdle

SpecCombo == InitCombo /\ [][AdvNext]_vars

InitHp == HpInit /\ HkIdle /\ DlgIdle /\ FrIdle /\ AdvIdle /\ MpIdle /\ RowIdle /\ BndIdle /\ PaneIdle

SpecHp == InitHp /\ [][HpNext]_vars

InitMp == MpInit /\ HkIdle /\ DlgIdle /\ FrIdle /\ AdvIdle /\ HpIdle /\ RowIdle /\ BndIdle /\ PaneIdle

SpecMp == InitMp /\ [][MpNext]_vars

InitAdvanced == RowInit /\ HkIdle /\ DlgIdle /\ FrIdle /\ AdvIdle /\ HpIdle /\ MpIdle /\ BndIdle /\ PaneIdle

SpecAdvanced == InitAdvanced /\ [][RowNext]_vars

InitHotkeys == BndInit /\ DlgIdle /\ FrIdle /\ AdvIdle /\ HpIdle /\ MpIdle /\ RowIdle /\ PaneIdle

SpecHotkeys == InitHotkeys /\ [][BndNext]_vars

InitPane == PaneInit /\ HkIdle /\ DlgIdle /\ FrIdle /\ AdvIdle /\ HpIdle /\ MpIdle /\ RowIdle /\ BndIdle

SpecPane == InitPane /\ [][PaneNext]_vars

=============================================================================
